---- MODULE Spec2Model ----
(***************************************************************************)
(* Model of the schema-adaptive query planner of                           *)
(* Team3/streamlit_app/BenAu/BEN_app4.py: the schema probe, the column     *)
(* resolver, build_plan, the SQL synthesizer (joined_cte_sql and its       *)
(* helpers), build_where_and_params and the cached loaders.                *)
(*                                                                         *)
(* The database is the environment: its tables, their columns and their    *)
(* rows are chosen by Init from bounded families and never change (the     *)
(* connection is read-only).  SQL text is held as strings built the way    *)
(* the f-strings build it; beside the text every expression is held as a   *)
(* term (op, alias, name, args) that the model of the SQL engine evaluates *)
(* over the rows.                                                          *)
(***************************************************************************)
EXTENDS Integers, Sequences, FiniteSets, TLC

VARIABLES
    tableExists,   \* database: table name -> BOOLEAN
    tableCols,     \* database: table name -> sequence of column names
    tableRows,     \* database: table name -> sequence of rows (column -> cell)
    request,       \* sidebar selection handed to the loaders
    planRes,       \* outcome of build_plan()
    detailRes,     \* outcome of load_detail_sample(...)
    debugRes,      \* outcome of the "Show SQL (debug)" branch
    pfCols,        \* pick_first harness: the cols argument
    pfCands,       \* pick_first harness: the candidates argument
    pfCalls,       \* pick_first harness: results of the calls made so far
    heatRes,       \* outcome of the latest load_heatmap_agg(...) call
    heatCache,     \* st.cache_data entry of load_heatmap_agg for the request
    heatLog,       \* what every load_heatmap_agg call so far handed back
    page,          \* the run of the page script: position, what is on the page
    matchDf,       \* compute_match_scores harness: the frame handed in
    matchArgs,     \* compute_match_scores harness: targets and preferences
    matchOut,      \* compute_match_scores harness: what the call returned
    clock,         \* seconds since the process started
    clears,        \* how often "Clear cache" was pressed
    colsCache,     \* st.cache_data entries of get_table_cols, by table
    planCache,     \* st.cache_data entry of build_plan
    loadCache,     \* st.cache_data entries of the three loaders, by function
    planOut,       \* what the latest build_plan() call returned
    evalOut        \* what the latest call of a loader returned

dbVars  == <<tableExists, tableCols, tableRows>>
runVars == <<planRes, detailRes, debugRes>>
pfVars  == <<pfCols, pfCands, pfCalls>>
heatVars == <<heatRes, heatCache, heatLog>>
pageVars  == <<page>>
matchVars == <<matchDf, matchArgs, matchOut>>
cacheVars == <<clock, clears, colsCache, planCache, loadCache, planOut, evalOut>>
extVars   == <<pageVars, matchVars, cacheVars>>
vars    == <<tableExists, tableCols, tableRows, request,
             planRes, detailRes, debugRes, pfCols, pfCands, pfCalls,
             heatRes, heatCache, heatLog,
             page, matchDf, matchArgs, matchOut,
             clock, clears, colsCache, planCache, loadCache, planOut, evalOut>>

-----------------------------------------------------------------------------
(* Generic helpers *)

Range(s) == {s[i] : i \in 1..Len(s)}

InList(x, s) == \E i \in 1..Len(s) : s[i] = x

\* the subsequence of u holding exactly the elements of S
SubSeq_(u, S) == SelectSeq(u, LAMBDA c : c \in S)

SubSeqs(u) == {SubSeq_(u, S) : S \in SUBSET Range(u)}

RECURSIVE SeqsUpTo(_, _)
SeqsUpTo(S, n) ==
    IF n = 0 THEN {<<>>}
    ELSE LET shorter == SeqsUpTo(S, n - 1)
         IN  shorter \cup {Append(s, x) : s \in {t \in shorter : Len(t) = n - 1}, x \in S}

\* Python's None; an f-string renders it as the text "None"
None == "None"

-----------------------------------------------------------------------------
(* Config *)

T_BASE == "jobs_base"
T_CAT  == "jobs_categories"
T_ENR  == "jobs_enriched"
T_RAW  == "jobs_raw"

Tables == {T_BASE, T_CAT, T_ENR, T_RAW}

-----------------------------------------------------------------------------
(* Column resolver *)

RECURSIVE pick_first_from(_, _, _)
pick_first_from(cols, candidates, i) ==
    IF i > Len(candidates) THEN None
    ELSE IF InList(candidates[i], cols) THEN candidates[i]
    ELSE pick_first_from(cols, candidates, i + 1)

RECURSIVE pick_first_by_cols(_, _, _)
pick_first_by_cols(cols, candidates, i) ==
    IF i > Len(cols) THEN None
    ELSE IF InList(cols[i], candidates) THEN cols[i]
    ELSE pick_first_by_cols(cols, candidates, i + 1)

\* mutant: the loop runs over cols, so column order decides
pick_first_cols_order(cols, candidates) == pick_first_by_cols(cols, candidates, 1)

pick_first(cols, candidates) == pick_first_from(cols, candidates, 1)

-----------------------------------------------------------------------------
(* Candidate-name lists of build_plan *)

key_candidates == <<"metadata_jobPostId", "job_post_id", "jobPostId", "job_id",
                    "metadata_job_post_id">>

b_title_candidates   == <<"title">>
b_company_candidates == <<"postedCompany_name", "company_name", "posted_company_name">>
b_emp_candidates     == <<"employmentTypes", "employment_type">>
b_level_candidates   == <<"positionLevels", "position_level">>
b_sal_min_candidates == <<"salary_minimum", "salary_min">>
b_sal_max_candidates == <<"salary_maximum", "salary_max">>
status_candidates    == <<"status_jobStatus", "status_job_status", "jobStatus", "job_status">>

c_primary_candidates == <<"primary_category", "primaryCategory", "category", "category_name">>

e_avg_candidates     == <<"avg_salary", "average_salary", "salary_mid", "salary_midpoint">>
e_emp_candidates     == <<"employment_type", "employmentTypes">>
e_level_candidates   == <<"position_level", "positionLevels">>
e_primary_candidates == <<"primary_category">>
e_sal_min_candidates == <<"salary_min", "salary_minimum">>
e_sal_max_candidates == <<"salary_max", "salary_maximum">>

-----------------------------------------------------------------------------
(* Schema probe *)

\* PRAGMA table_info raises for a table the database does not hold
get_table_cols(table) ==
    IF tableExists[table]
    THEN [raised |-> FALSE, cols |-> tableCols[table]]
    ELSE [raised |-> TRUE,  cols |-> <<>>]

-----------------------------------------------------------------------------
(* Query plan builder *)

NoPlan ==
    [b_key |-> None, c_key |-> None, e_key |-> None, r_key |-> None,
     b_title |-> None, b_company |-> None, b_emp |-> None, b_level |-> None,
     b_sal_min |-> None, b_sal_max |-> None, b_status |-> None,
     c_primary |-> None,
     e_avg |-> None, e_emp |-> None, e_level |-> None, e_primary |-> None,
     e_sal_min |-> None, e_sal_max |-> None, e_status |-> None,
     r_status |-> None]

Raised(msg) == [status |-> "raised", error |-> msg, plan |-> NoPlan]

\* Python truthiness of a resolved column name
Truthy(x) == x # None /\ x # ""

\* mutant: only the base table is accepted as a source of employment type
missing_required_base_only(b_key, b_emp, e_emp, b_level, e_level) ==
    IF ~Truthy(b_key) THEN "Cannot find join key in jobs_base."
    ELSE IF ~Truthy(b_emp)
    THEN "Cannot find employment type column in base or enriched."
    ELSE IF ~(Truthy(b_level) \/ Truthy(e_level))
    THEN "Cannot find position level column in base or enriched."
    ELSE ""

\* the three raise statements of build_plan; "" when none is taken.  The
\* join-key check stands before the other resolutions and these two after
\* them, with no effect in between, so their order is kept.
missing_required(b_key, b_emp, e_emp, b_level, e_level) ==
    IF ~Truthy(b_key) THEN "Cannot find join key in jobs_base."
    ELSE IF ~(Truthy(b_emp) \/ Truthy(e_emp))
    THEN "Cannot find employment type column in base or enriched."
    ELSE IF ~(Truthy(b_level) \/ Truthy(e_level))
    THEN "Cannot find position level column in base or enriched."
    ELSE ""

\* the resolution part of build_plan
resolve_plan(cols_b, cols_c, cols_e, cols_r) ==
    LET b_key == pick_first(cols_b, key_candidates)
        c_key == pick_first(cols_c, key_candidates)
        e_key == pick_first(cols_e, key_candidates)
        r_key == IF cols_r # <<>> THEN pick_first(cols_r, key_candidates) ELSE None
        b_emp   == pick_first(cols_b, b_emp_candidates)
        b_level == pick_first(cols_b, b_level_candidates)
        e_emp   == pick_first(cols_e, e_emp_candidates)
        e_level == pick_first(cols_e, e_level_candidates)
        err     == missing_required(b_key, b_emp, e_emp, b_level, e_level)
    IN  IF err # ""
        THEN Raised(err)
        ELSE [status |-> "ok", error |-> "",
              plan |->
                [b_key |-> b_key, c_key |-> c_key, e_key |-> e_key, r_key |-> r_key,
                 b_title   |-> pick_first(cols_b, b_title_candidates),
                 b_company |-> pick_first(cols_b, b_company_candidates),
                 b_emp     |-> b_emp,
                 b_level   |-> b_level,
                 b_sal_min |-> pick_first(cols_b, b_sal_min_candidates),
                 b_sal_max |-> pick_first(cols_b, b_sal_max_candidates),
                 b_status  |-> pick_first(cols_b, status_candidates),
                 c_primary |-> pick_first(cols_c, c_primary_candidates),
                 e_avg     |-> pick_first(cols_e, e_avg_candidates),
                 e_emp     |-> e_emp,
                 e_level   |-> e_level,
                 e_primary |-> pick_first(cols_e, e_primary_candidates),
                 e_sal_min |-> pick_first(cols_e, e_sal_min_candidates),
                 e_sal_max |-> pick_first(cols_e, e_sal_max_candidates),
                 e_status  |-> pick_first(cols_e, status_candidates),
                 r_status  |-> IF cols_r # <<>>
                               THEN pick_first(cols_r, status_candidates)
                               ELSE None]]

\* build_plan(): the four probes, only the raw one guarded by try/except
build_plan ==
    LET pb == get_table_cols(T_BASE)
        pc == get_table_cols(T_CAT)
        pe == get_table_cols(T_ENR)
        pr == get_table_cols(T_RAW)
        cols_r == IF pr.raised THEN <<>> ELSE pr.cols
    IN  IF pb.raised THEN Raised("Catalog Error: Table with name jobs_base does not exist!")
        ELSE IF pc.raised THEN Raised("Catalog Error: Table with name jobs_categories does not exist!")
        ELSE IF pe.raised THEN Raised("Catalog Error: Table with name jobs_enriched does not exist!")
        ELSE resolve_plan(pb.cols, pc.cols, pe.cols, cols_r)

-----------------------------------------------------------------------------
(* SQL expressions: the text the f-strings build, held with its structure *)

Term(op, alias, name, args) == [op |-> op, alias |-> alias, name |-> name, args |-> args]

Col(alias, name) == Term("col", alias, name, <<>>)
NullLit          == Term("NULL", "", "", <<>>)
NullDouble       == Term("NULL::DOUBLE", "", "", <<>>)
NoExpr           == Term("None", "", "", <<>>)       \* Python None for min_expr / max_expr
Coalesce(pieces) == Term("coalesce", "", "", pieces)
HalfSum(a, b)    == Term("halfsum", "", "", <<a, b>>) \* ((a + b) / 2.0)

sql_try_double(expr) == Term("try_cast_double", "", "", <<expr>>)

\* mutant: the midpoint of the bounds is tried before the average-salary column
salary_pieces_mid_first(avg_pieces, min_expr, max_expr) ==
    IF min_expr.op # "None" /\ max_expr.op # "None"
    THEN <<HalfSum(min_expr, max_expr)>> \o avg_pieces \o <<min_expr, max_expr>>
    ELSE IF min_expr.op # "None" THEN avg_pieces \o <<min_expr>>
    ELSE IF max_expr.op # "None" THEN avg_pieces \o <<max_expr>>
    ELSE avg_pieces

\* the appends to `pieces` of build_salary_mid_expr, in order
salary_pieces(avg_pieces, min_expr, max_expr) ==
    IF min_expr.op # "None" /\ max_expr.op # "None"
    THEN avg_pieces \o <<HalfSum(min_expr, max_expr), min_expr, max_expr>>
    ELSE IF min_expr.op # "None" THEN avg_pieces \o <<min_expr>>
    ELSE IF max_expr.op # "None" THEN avg_pieces \o <<max_expr>>
    ELSE avg_pieces

build_salary_mid_expr(plan) ==
    LET avg_pieces ==
            IF Truthy(plan.e_key) /\ Truthy(plan.e_avg)
            THEN <<sql_try_double(Col("e", plan.e_avg))>>
            ELSE <<>>
        min_expr ==
            IF Truthy(plan.e_key) /\ Truthy(plan.e_sal_min)
            THEN sql_try_double(Col("e", plan.e_sal_min))
            ELSE IF Truthy(plan.b_sal_min)
            THEN sql_try_double(Col("b", plan.b_sal_min))
            ELSE NoExpr
        max_expr ==
            IF Truthy(plan.e_key) /\ Truthy(plan.e_sal_max)
            THEN sql_try_double(Col("e", plan.e_sal_max))
            ELSE IF Truthy(plan.b_sal_max)
            THEN sql_try_double(Col("b", plan.b_sal_max))
            ELSE NoExpr
        pieces == salary_pieces(avg_pieces, min_expr, max_expr)
    IN  IF pieces = <<>> THEN NullDouble ELSE Coalesce(pieces)

\* mutant: the raw status stands where the status group should
status_group_unmapped(status_expr) == status_expr

\* the CASE expression over lower(status_expr)
build_status_group_expr(status_expr) == Term("status_case", "", "", <<status_expr>>)

\* a LEFT JOIN clause, or the empty string of the code (on = FALSE)
NoJoin == [on |-> FALSE, table |-> "", alias |-> "", left |-> "", right |-> ""]
LeftJoin(table, alias, left, right) ==
    [on |-> TRUE, table |-> table, alias |-> alias, left |-> left, right |-> right]

\* mutant: the enriched status column is taken without asking for the enriched join
status_source_no_join_check(plan) ==
    IF Truthy(plan.b_status) THEN Col("b", plan.b_status)
    ELSE IF Truthy(plan.e_status) THEN Col("e", plan.e_status)
    ELSE IF Truthy(plan.r_status) THEN Col("r", plan.r_status)
    ELSE NullLit

\* status_expr of joined_cte_sql
status_source(plan) ==
    IF Truthy(plan.b_status) THEN Col("b", plan.b_status)
    ELSE IF Truthy(plan.e_key) /\ Truthy(plan.e_status) THEN Col("e", plan.e_status)
    ELSE IF Truthy(plan.r_status) THEN Col("r", plan.r_status)
    ELSE NullLit

\* mutant: the enriched category column is preferred to the category table's
primary_source_enriched_first(plan) ==
    IF Truthy(plan.e_key) /\ Truthy(plan.e_primary) THEN Col("e", plan.e_primary)
    ELSE IF Truthy(plan.c_primary) THEN Col("c", plan.c_primary)
    ELSE NullLit

\* primary_expr of joined_cte_sql
primary_source(plan) ==
    IF Truthy(plan.c_primary) THEN Col("c", plan.c_primary)
    ELSE IF Truthy(plan.e_key) /\ Truthy(plan.e_primary) THEN Col("e", plan.e_primary)
    ELSE NullLit

\* mutant: a missing title or company name is interpolated as it stands
optional_base_col_unguarded(name) == Col("b", name)

\* ('b.' + plan[...]) if plan[...] else 'NULL'
optional_base_col(name) == IF Truthy(name) THEN Col("b", name) ELSE NullLit

joined_cte_sql(plan) ==
    [join_enr |-> IF Truthy(plan.e_key)
                  THEN LeftJoin(T_ENR, "e", plan.b_key, plan.e_key) ELSE NoJoin,
     join_cat |-> IF Truthy(plan.c_key)
                  THEN LeftJoin(T_CAT, "c", plan.b_key, plan.c_key) ELSE NoJoin,
     join_raw |-> IF ~Truthy(plan.b_status)
                     /\ ~(Truthy(plan.e_key) /\ Truthy(plan.e_status))
                     /\ Truthy(plan.r_key) /\ Truthy(plan.r_status)
                  THEN LeftJoin(T_RAW, "r", plan.b_key, plan.r_key) ELSE NoJoin,
     job_post_id      |-> Col("b", plan.b_key),
     title            |-> optional_base_col(plan.b_title),
     company_name     |-> optional_base_col(plan.b_company),
     salary_mid       |-> build_salary_mid_expr(plan),
     position_level   |-> IF Truthy(plan.e_key) /\ Truthy(plan.e_level)
                          THEN Col("e", plan.e_level) ELSE Col("b", plan.b_level),
     employment_type  |-> IF Truthy(plan.e_key) /\ Truthy(plan.e_emp)
                          THEN Col("e", plan.e_emp) ELSE Col("b", plan.b_emp),
     primary_category |-> primary_source(plan),
     status_group     |-> build_status_group_expr(status_source(plan))]

OutputColumns == <<"job_post_id", "title", "company_name", "salary_mid",
                   "position_level", "employment_type", "primary_category",
                   "status_group">>

-----------------------------------------------------------------------------
(* The SQL text *)

RECURSIVE JoinText(_, _)
JoinText(parts, sep) ==
    IF parts = <<>> THEN ""
    ELSE IF Len(parts) = 1 THEN parts[1]
    ELSE parts[1] \o sep \o JoinText(Tail(parts), sep)

RECURSIVE ExprText(_)
ExprText(e) ==
    CASE e.op = "col"             -> e.alias \o "." \o e.name
      [] e.op = "NULL"            -> "NULL"
      [] e.op = "NULL::DOUBLE"    -> "NULL::DOUBLE"
      [] e.op = "try_cast_double" -> "try_cast(" \o ExprText(e.args[1]) \o " AS DOUBLE)"
      [] e.op = "halfsum"         ->
            "((" \o ExprText(e.args[1]) \o " + " \o ExprText(e.args[2]) \o ") / 2.0)"
      [] e.op = "coalesce"        ->
            "coalesce(" \o JoinText([i \in 1..Len(e.args) |-> ExprText(e.args[i])], ", ") \o ")"
      [] e.op = "status_case"     ->
            LET x == ExprText(e.args[1])
            IN  " CASE WHEN " \o x \o " IS NULL THEN NULL"
                \o " WHEN lower(" \o x \o ") IN ('re-open','reopen','re-opened','reopened') THEN 'Open'"
                \o " WHEN lower(" \o x \o ") = 'open' THEN 'Open'"
                \o " WHEN lower(" \o x \o ") = 'closed' THEN 'Closed'"
                \o " ELSE " \o x \o " END "

JoinClauseText(j) ==
    IF j.on
    THEN " LEFT JOIN " \o j.table \o " " \o j.alias \o " ON b." \o j.left
         \o " = " \o j.alias \o "." \o j.right
    ELSE ""

\* the text joined_cte_sql returns
joined_cte_text(j) ==
    " WITH joined AS ( SELECT "
    \o JoinText([i \in 1..Len(OutputColumns) |->
                    ExprText(j[OutputColumns[i]]) \o " AS " \o OutputColumns[i]], ", ")
    \o " FROM " \o T_BASE \o " b"
    \o JoinClauseText(j.join_enr) \o JoinClauseText(j.join_cat) \o JoinClauseText(j.join_raw)
    \o " ) "

-----------------------------------------------------------------------------
(* Values of the SQL engine.  A DOUBLE is held in halves (n = 2 * value), so *)
(* that the / 2.0 of the midpoint of two whole bounds is exact.              *)

NullCell   == [k |-> "null", n |-> 0, s |-> ""]
IntCell(n) == [k |-> "int",  n |-> n, s |-> ""]
StrCell(s) == [k |-> "str",  n |-> 0, s |-> s]
DblCell(h) == [k |-> "dbl",  n |-> h, s |-> ""]

IsNull(c) == c.k = "null"

\* the characters of the strings the database families hold
Spell(s) ==
    CASE s = "Re-Open"   -> <<"R","e","-","O","p","e","n">>
      [] s = "REOPEN"    -> <<"R","E","O","P","E","N">>
      [] s = "re-opened" -> <<"r","e","-","o","p","e","n","e","d">>
      [] s = "Reopened"  -> <<"R","e","o","p","e","n","e","d">>
      [] s = "Open"      -> <<"O","p","e","n">>
      [] s = "OPEN"      -> <<"O","P","E","N">>
      [] s = "open"      -> <<"o","p","e","n">>
      [] s = "Closed"    -> <<"C","l","o","s","e","d">>
      [] s = "CLOSED"    -> <<"C","L","O","S","E","D">>
      [] s = "closed"    -> <<"c","l","o","s","e","d">>
      [] s = "Opened"    -> <<"O","p","e","n","e","d">>
      [] s = "Open "     -> <<"O","p","e","n"," ">>
      [] s = "Close"     -> <<"C","l","o","s","e">>
      [] s = "Pending"   -> <<"P","e","n","d","i","n","g">>
      [] s = ""          -> <<>>
      [] s = "re-open"   -> <<"r","e","-","o","p","e","n">>
      [] s = "reopen"    -> <<"r","e","o","p","e","n">>
      [] s = "reopened"  -> <<"r","e","o","p","e","n","e","d">>
      [] s = "3000"      -> <<"3","0","0","0">>
      [] s = "5000"      -> <<"5","0","0","0">>
      [] s = "abc"       -> <<"a","b","c">>
      [] s = "4k"        -> <<"4","k">>

UpperLetters == <<"A","B","C","D","E","F","G","H","I","J","K","L","M",
                  "N","O","P","Q","R","S","T","U","V","W","X","Y","Z">>
LowerLetters == <<"a","b","c","d","e","f","g","h","i","j","k","l","m",
                  "n","o","p","q","r","s","t","u","v","w","x","y","z">>

LowerChar(ch) ==
    IF InList(ch, UpperLetters)
    THEN LowerLetters[CHOOSE i \in 1..Len(UpperLetters) : UpperLetters[i] = ch]
    ELSE ch

\* mutant: no case folding
sql_lower_identity(s) == Spell(s)

\* lower(x), as characters
sql_lower(s) == [i \in 1..Len(Spell(s)) |-> LowerChar(Spell(s)[i])]

Digits == <<"0","1","2","3","4","5","6","7","8","9">>

DigitValue(ch) == (CHOOSE i \in 1..Len(Digits) : Digits[i] = ch) - 1

RECURSIVE DigitsValue(_)
DigitsValue(chars) ==
    IF chars = <<>> THEN 0
    ELSE 10 * DigitsValue(SubSeq(chars, 1, Len(chars) - 1)) + DigitValue(chars[Len(chars)])

\* mutant: CAST instead of TRY_CAST; text that is no number is an error
try_cast_double_strict(c) ==
    CASE c.k = "null" -> NullCell
      [] c.k = "int"  -> DblCell(2 * c.n)
      [] c.k = "dbl"  -> c
      [] c.k = "str"  ->
            IF Spell(c.s) # <<>> /\ \A i \in 1..Len(Spell(c.s)) : InList(Spell(c.s)[i], Digits)
            THEN DblCell(2 * DigitsValue(Spell(c.s)))
            ELSE [k |-> "error", n |-> 0, s |-> "Conversion Error"]

\* try_cast(x AS DOUBLE): text that is no number becomes NULL
try_cast_double(c) ==
    CASE c.k = "null" -> NullCell
      [] c.k = "int"  -> DblCell(2 * c.n)
      [] c.k = "dbl"  -> c
      [] c.k = "str"  ->
            IF Spell(c.s) # <<>> /\ \A i \in 1..Len(Spell(c.s)) : InList(Spell(c.s)[i], Digits)
            THEN DblCell(2 * DigitsValue(Spell(c.s)))
            ELSE NullCell

\* mutant: the 'open' arm is missing
status_group_value_no_open(c) ==
    IF IsNull(c) THEN NullCell
    ELSE IF sql_lower(c.s) \in {Spell("re-open"), Spell("reopen"),
                                Spell("re-opened"), Spell("reopened")}
    THEN StrCell("Open")
    ELSE IF sql_lower(c.s) = Spell("closed") THEN StrCell("Closed")
    ELSE c

\* the CASE expression of build_status_group_expr, arm by arm
status_group_value(c) ==
    IF IsNull(c) THEN NullCell
    ELSE IF sql_lower(c.s) \in {Spell("re-open"), Spell("reopen"),
                                Spell("re-opened"), Spell("reopened")}
    THEN StrCell("Open")
    ELSE IF sql_lower(c.s) = Spell("open") THEN StrCell("Open")
    ELSE IF sql_lower(c.s) = Spell("closed") THEN StrCell("Closed")
    ELSE c

\* one side of a joined row: a matched row of the table, or the NULL extension
NoSide      == [hit |-> FALSE, row |-> <<>>]
HitSide(r)  == [hit |-> TRUE,  row |-> r]

ColVal(jr, alias, name) == IF jr[alias].hit THEN jr[alias].row[name] ELSE NullCell

RECURSIVE FirstNonNull(_)
FirstNonNull(cells) ==
    IF cells = <<>> THEN NullCell
    ELSE IF ~IsNull(cells[1]) THEN cells[1]
    ELSE FirstNonNull(Tail(cells))

RECURSIVE Eval(_, _)
Eval(e, jr) ==
    CASE e.op = "col"             -> ColVal(jr, e.alias, e.name)
      [] e.op = "NULL"            -> NullCell
      [] e.op = "NULL::DOUBLE"    -> NullCell
      [] e.op = "try_cast_double" -> try_cast_double(Eval(e.args[1], jr))
      [] e.op = "halfsum"         ->
            LET a == Eval(e.args[1], jr)
                b == Eval(e.args[2], jr)
            IN  IF IsNull(a) \/ IsNull(b) THEN NullCell ELSE DblCell((a.n + b.n) \div 2)
      [] e.op = "coalesce"        ->
            FirstNonNull([i \in 1..Len(e.args) |-> Eval(e.args[i], jr)])
      [] e.op = "status_case"     -> status_group_value(Eval(e.args[1], jr))

-----------------------------------------------------------------------------
(* Filters *)

\* bound parameters: a float or a list of strings
FloatParam(x) == [kind |-> "float", num |-> x, list |-> <<>>]
ListParam(l)  == [kind |-> "list",  num |-> 0, list |-> l]

NoClause == [where |-> <<>>, params |-> <<>>]

\* mutant: the selected values are written into the SQL text as literals
where_clause_inlined(column, values) ==
    IF values # <<>>
    THEN [where  |-> <<column \o " IN ('" \o JoinText(values, "','") \o "')">>,
          params |-> <<>>]
    ELSE NoClause

\* mutant: the predicate is appended for an empty selection too
where_clause_always(column, values) ==
    [where |-> <<column \o " = ANY(?)">>, params |-> <<ListParam(values)>>]

\* one `if values:` block of build_where_and_params
where_clause(column, values) ==
    IF values # <<>>
    THEN [where |-> <<column \o " = ANY(?)">>, params |-> <<ListParam(values)>>]
    ELSE NoClause

\* `where` is the list the code joins into where_sql; the engine reads the
\* conjuncts from it
build_where_and_params(levels, cats, emps, status_groups) ==
    LET l == where_clause("position_level", levels)
        c == where_clause("primary_category", cats)
        e == where_clause("employment_type", emps)
        g == where_clause("status_group", status_groups)
        where  == l.where \o c.where \o e.where \o g.where
        params == l.params \o c.params \o e.params \o g.params
    IN  [where     |-> where,
         where_sql |-> IF where # <<>> THEN JoinText(where, " AND ") ELSE "1=1",
         params    |-> params]

detail_sql_text(joined_sql, where_sql, max_rows) ==
    joined_sql \o ", filtered AS ( SELECT * FROM joined WHERE " \o where_sql
    \o " AND salary_mid IS NOT NULL AND position_level IS NOT NULL"
    \o " AND employment_type IS NOT NULL ) SELECT * FROM filtered USING SAMPLE "
    \o ToString(max_rows) \o " ROWS"

cap_sql_text(joined_sql, where_sql) ==
    joined_sql \o " SELECT quantile_cont(salary_mid, ?) AS cap FROM joined WHERE "
    \o where_sql \o " AND salary_mid IS NOT NULL AND position_level IS NOT NULL"

agg_sql_text(joined_sql, where_sql) ==
    joined_sql \o ", filtered AS ( SELECT * FROM joined WHERE " \o where_sql
    \o " AND salary_mid IS NOT NULL AND position_level IS NOT NULL ),"
    \o " capped AS ( SELECT position_level, least(salary_mid, ?) AS salary_mid_capped"
    \o " FROM filtered )"
    \o " SELECT position_level, floor(salary_mid_capped / ?) * ? AS bin_start,"
    \o " count(*) AS cnt FROM capped GROUP BY 1, 2 ORDER BY 1, 2"

-----------------------------------------------------------------------------
(* The SQL engine: binding, the joined relation, the filter *)

AliasTable(alias) ==
    CASE alias = "b" -> T_BASE
      [] alias = "e" -> T_ENR
      [] alias = "c" -> T_CAT
      [] alias = "r" -> T_RAW

Joins(j) == <<j.join_enr, j.join_cat, j.join_raw>>

JoinedAliases(j) == {"b"} \cup {Joins(j)[i].alias : i \in {n \in 1..3 : Joins(j)[n].on}}

RECURSIVE ColRefs(_)
ColRefs(e) ==
    IF e.op = "col" THEN {<<e.alias, e.name>>}
    ELSE UNION {ColRefs(e.args[i]) : i \in 1..Len(e.args)}

HasCol(table, name) == tableExists[table] /\ InList(name, tableCols[table])

\* no Catalog or Binder error: every table of the FROM clause is held by the
\* database and every alias.column names a column of a joined table
Binds(j) ==
    /\ tableExists[T_BASE]
    /\ \A i \in 1..3 :
          Joins(j)[i].on =>
             /\ HasCol(T_BASE, Joins(j)[i].left)
             /\ HasCol(Joins(j)[i].table, Joins(j)[i].right)
    /\ \A i \in 1..Len(OutputColumns) :
          \A ref \in ColRefs(j[OutputColumns[i]]) :
             /\ ref[1] \in JoinedAliases(j)
             /\ HasCol(AliasTable(ref[1]), ref[2])

RECURSIVE Flatten(_)
Flatten(ss) == IF ss = <<>> THEN <<>> ELSE ss[1] \o Flatten(Tail(ss))

\* b.left = alias.right: NULL never matches
KeyMatches(a, b) == ~IsNull(a) /\ ~IsNull(b) /\ a = b

\* the rows a LEFT JOIN pairs with one base row
Sides(join, brow) ==
    IF ~join.on THEN <<NoSide>>
    ELSE LET m == SelectSeq(tableRows[join.table],
                            LAMBDA r : KeyMatches(brow[join.left], r[join.right]))
         IN  IF m = <<>> THEN <<NoSide>> ELSE [i \in 1..Len(m) |-> HitSide(m[i])]

JoinedFor(j, brow) ==
    LET E == Sides(j.join_enr, brow)
        C == Sides(j.join_cat, brow)
        R == Sides(j.join_raw, brow)
    IN  Flatten([x \in 1..Len(E) |->
           Flatten([y \in 1..Len(C) |->
              [z \in 1..Len(R) |->
                 [b |-> HitSide(brow), e |-> E[x], c |-> C[y], r |-> R[z]]]])])

\* FROM jobs_base b LEFT JOIN ...
JoinedRows(j) ==
    Flatten([n \in 1..Len(tableRows[T_BASE]) |-> JoinedFor(j, tableRows[T_BASE][n])])

\* the SELECT list of the CTE, evaluated on one joined row
OutRow(j, jr) ==
    [job_post_id      |-> Eval(j.job_post_id, jr),
     title            |-> Eval(j.title, jr),
     company_name     |-> Eval(j.company_name, jr),
     salary_mid       |-> Eval(j.salary_mid, jr),
     position_level   |-> Eval(j.position_level, jr),
     employment_type  |-> Eval(j.employment_type, jr),
     primary_category |-> Eval(j.primary_category, jr),
     status_group     |-> Eval(j.status_group, jr)]

Joined(j) == LET jrs == JoinedRows(j) IN [i \in 1..Len(jrs) |-> OutRow(j, jrs[i])]

\* the column a conjunct of the WHERE list tests
ConjunctColumn(text) ==
    CASE text = "position_level = ANY(?)"   -> "position_level"
      [] text = "primary_category = ANY(?)" -> "primary_category"
      [] text = "employment_type = ANY(?)"  -> "employment_type"
      [] text = "status_group = ANY(?)"     -> "status_group"

\* x = ANY(list): NULL = ANY(...) is not true
WhereHolds(row, w) ==
    \A i \in 1..Len(w.where) :
        LET cell == row[ConjunctColumn(w.where[i])]
        IN  ~IsNull(cell) /\ InList(cell.s, w.params[i].list)

NotNull(row, columns) == \A c \in columns : ~IsNull(row[c])

\* SELECT * FROM joined WHERE <where_sql> AND <columns> IS NOT NULL
Filtered(j, w, columns) ==
    SelectSeq(Joined(j), LAMBDA row : WhereHolds(row, w) /\ NotNull(row, columns))

DetailNotNull == {"salary_mid", "position_level", "employment_type"}

\* the prepared statement is one the engine can run: every conjunct is a
\* placeholder test and every placeholder has its parameter
Executable(w) ==
    /\ Len(w.params) = Len(w.where)
    /\ \A i \in 1..Len(w.where) :
          /\ w.where[i] \in {"position_level = ANY(?)", "primary_category = ANY(?)",
                             "employment_type = ANY(?)", "status_group = ANY(?)"}
          /\ w.params[i].kind = "list"

\* mutant: the sample clause is not applied, every row of `filtered` comes back
Min_uncapped(a, b) == b

Min(a, b) == IF a <= b THEN a ELSE b

\* the rows of s at the positions of S, in order
Pick(s, S) == LET idx == SubSeq_([i \in 1..Len(s) |-> i], S)
              IN  [i \in 1..Len(idx) |-> s[idx[i]]]

-----------------------------------------------------------------------------
(* Heatmap aggregation (load_heatmap_agg).  The DOUBLEs of the two queries  *)
(* are held as exact fractions num/den with den > 0; a midpoint of the      *)
(* joined relation, held in halves, is the fraction n/2.  The percentile is *)
(* held in hundredths, as the slider steps by 0.01.                         *)

Rat(n, d) == [num |-> n, den |-> d]

RatLeq(a, b)  == a.num * b.den <= b.num * a.den
RatLess(a, b) == a.num * b.den <  b.num * a.den
RatEq(a, b)   == a.num * b.den =  b.num * a.den

\* the DOUBLE a salary_mid cell holds
RatOfCell(c) == Rat(c.n, 2)

\* bound parameters of the two heatmap queries
RatParam(r)   == [kind |-> "float", num |-> r.num, den |-> r.den, list |-> <<>>]
ListParams(ps) == [i \in 1..Len(ps) |->
                     [kind |-> "list", num |-> 0, den |-> 1, list |-> ps[i].list]]

HeatNotNull == {"salary_mid", "position_level"}

RECURSIVE SortAscending(_)
SortAscending(s) ==
    IF s = <<>> THEN <<>>
    ELSE LET i == CHOOSE i \in 1..Len(s) : \A k \in 1..Len(s) : s[i] <= s[k]
         IN  <<s[i]>> \o SortAscending(SubSeq(s, 1, i - 1) \o SubSeq(s, i + 1, Len(s)))

\* the one row the cap query returns: NULL over no rows
NullCap      == [null |-> TRUE,  v |-> Rat(0, 1)]
CapValue(r)  == [null |-> FALSE, v |-> r]

\* quantile_cont(salary_mid, pct / 100) over the halves hs: the value at
\* position RN = (n - 1) * pct / 100 of the sorted values, interpolated
\* linearly between its two neighbours
quantile_cont(hs, pct) ==
    IF hs = <<>> THEN NullCap
    ELSE LET s   == SortAscending(hs)
             RN  == (Len(s) - 1) * pct
             FRN == RN \div 100
             d   == RN % 100
             CRN == IF d = 0 THEN FRN ELSE FRN + 1
         IN  CapValue(Rat(100 * s[FRN + 1] + d * (s[CRN + 1] - s[FRN + 1]), 200))

\* mutant: only a missing cap stops the call
cap_unusable_null_only(cap) == cap.null

\* `cap_val is None or pd.isna(cap_val) or float(cap_val) <= 0`; the NULL of
\* the query reaches the frame as NaN
cap_unusable(cap) == cap.null \/ cap.v.num <= 0

\* mutant: the width is not floored at 1.0
bin_size_unfloored(cap_val, nbinsy) == Rat(cap_val.num, cap_val.den * nbinsy)

\* max(float(cap_val) / nbinsy, 1.0)
bin_size(cap_val, nbinsy) ==
    LET q == Rat(cap_val.num, cap_val.den * nbinsy)
    IN  IF RatLess(Rat(1, 1), q) THEN q ELSE Rat(1, 1)

\* mutant: the midpoint is not clamped
least_uncapped(salary_mid, cap_val) == salary_mid

\* least(salary_mid, ?)
least(salary_mid, cap_val) == IF RatLeq(salary_mid, cap_val) THEN salary_mid ELSE cap_val

\* floor(salary_mid_capped / ?)
bin_index(salary_mid_capped, width) ==
    (salary_mid_capped.num * width.den) \div (salary_mid_capped.den * width.num)

\* floor(salary_mid_capped / ?) * ?
bin_start(salary_mid_capped, width) ==
    Rat(bin_index(salary_mid_capped, width) * width.num, width.den)

\* the `capped` CTE
capped(filtered, cap_val) ==
    [i \in 1..Len(filtered) |->
        [position_level    |-> filtered[i].position_level,
         salary_mid_capped |-> least(RatOfCell(filtered[i].salary_mid), cap_val)]]

\* mutant: a bin counts the distinct midpoints it holds
count_distinct(rows, level, start, width) ==
    Cardinality({rows[i].salary_mid_capped :
                    i \in {n \in 1..Len(rows) :
                              /\ rows[n].position_level = level
                              /\ bin_start(rows[n].salary_mid_capped, width) = start}})

\* count(*) of one group
count_rows(rows, level, start, width) ==
    Cardinality({i \in 1..Len(rows) :
                    /\ rows[i].position_level = level
                    /\ bin_start(rows[i].salary_mid_capped, width) = start})

\* SELECT position_level, floor(..) * .. AS bin_start, count(*) AS cnt
\* FROM capped GROUP BY 1, 2; the rows are held as a set, ORDER BY 1, 2
\* fixing only the order they are listed in
group_bins(rows, width) ==
    {[position_level |-> rows[i].position_level,
      bin_start      |-> bin_start(rows[i].salary_mid_capped, width),
      cnt            |-> count_rows(rows, rows[i].position_level,
                                    bin_start(rows[i].salary_mid_capped, width), width)] :
        i \in 1..Len(rows)}

\* mutant: the cap column repeats the row's own bin_start
attach_bin_start(out, cap_val, width) ==
    {[position_level |-> o.position_level, bin_start |-> o.bin_start, cnt |-> o.cnt,
      cap |-> o.bin_start, bin_size |-> width] : o \in out}

\* out["cap"] = float(cap_val); out["bin_size"] = float(bin_size)
attach(out, cap_val, width) ==
    {[position_level |-> o.position_level, bin_start |-> o.bin_start, cnt |-> o.cnt,
      cap |-> cap_val, bin_size |-> width] : o \in out}

HeatColumns == <<"position_level", "bin_start", "cnt", "cap", "bin_size">>

\* the `?` of a statement in textual order, each named by what it stands
\* for: the column of a WHERE conjunct, the percentile, the cap, the width
where_placeholders(where) == [i \in 1..Len(where) |-> ConjunctColumn(where[i])]
detail_placeholders(where) == where_placeholders(where)
cap_placeholders(where)    == <<"percentile">> \o where_placeholders(where)
agg_placeholders(where)    == where_placeholders(where) \o <<"cap", "bin_size", "bin_size">>

\* cap_params = [float(salary_cap_pct)] + where_params
cap_params(pct, where_params) == <<RatParam(Rat(pct, 100))>> \o ListParams(where_params)

\* mutant: the cap is passed ahead of the filter sets
agg_params_cap_first(where_params, cap_val, width) ==
    <<RatParam(cap_val)>> \o ListParams(where_params)
    \o <<RatParam(width), RatParam(width)>>

\* agg_params = where_params + [float(cap_val), float(bin_size), float(bin_size)]
agg_params(where_params, cap_val, width) ==
    ListParams(where_params) \o <<RatParam(cap_val), RatParam(width), RatParam(width)>>

Query(kind, sql, placeholders, params) ==
    [kind |-> kind, sql |-> sql, placeholders |-> placeholders, params |-> params]

\* what a call hands back: issued lists the queries run_df was given, in
\* order; joined is the structure of the `joined` CTE and cte its rows;
\* population is the `filtered` relation both queries read
HeatResult(status, columns, rows, cap, width, issued, joined, cte, population) ==
    [status |-> status, columns |-> columns, rows |-> rows, cap |-> cap,
     bin_size |-> width, issued |-> issued, joined |-> joined, cte |-> cte,
     population |-> population]

NoHeat ==
    HeatResult("none", <<>>, {}, NullCap, Rat(0, 1), <<>>, joined_cte_sql(NoPlan),
               <<>>, <<>>)

-----------------------------------------------------------------------------
(* Operations *)

NoPlanRes == [status |-> "none", error |-> "", plan |-> NoPlan]

NoWhere == [where |-> <<>>, where_sql |-> "", params |-> <<>>]

\* sql, params: the query issued; joined, where: its structure; cte: the rows
\* of the `joined` CTE; population: the rows of `filtered`; rows: the sample
NoDetail == [status |-> "none", sql |-> "", params |-> <<>>,
             joined |-> joined_cte_sql(NoPlan), where |-> NoWhere,
             cte |-> <<>>, population |-> <<>>, rows |-> <<>>]

NoDebug == [status |-> "none", detail_sql |-> "", detail_params |-> <<>>,
            cap_sql |-> "", cap_params |-> <<>>]

\* the first call of build_plan() in a run; later calls are served its result
BuildPlan ==
    /\ planRes.status = "none"
    /\ planRes' = build_plan
    /\ UNCHANGED <<dbVars, request, detailRes, debugRes, pfVars, heatVars, extVars>>

\* the body of load_detail_sample run against the database: the statement
\* fails to execute, or a sample of `filtered` comes back
detail_call ==
    LET j   == joined_cte_sql(planRes.plan)
        w   == build_where_and_params(request.levels, request.cats,
                                      request.emps, request.status_groups)
        sql == detail_sql_text(joined_cte_text(j), w.where_sql, request.max_rows)
    IN  IF ~Binds(j) \/ ~Executable(w)
        THEN detailRes' = [status |-> "error", sql |-> sql, params |-> w.params,
                           joined |-> j, where |-> w,
                           cte |-> <<>>, population |-> <<>>, rows |-> <<>>]
        ELSE LET pop == Filtered(j, w, DetailNotNull)
             IN  \E S \in SUBSET (1..Len(pop)) :
                    /\ Cardinality(S) = Min(request.max_rows, Len(pop))
                    /\ detailRes' = [status |-> "ok", sql |-> sql, params |-> w.params,
                                     joined |-> j, where |-> w, cte |-> Joined(j),
                                     population |-> pop, rows |-> Pick(pop, S)]

\* load_detail_sample(levels, cats, emps, status_groups, max_rows)
LoadDetailSample ==
    /\ planRes.status = "ok"
    /\ detailRes.status = "none"
    /\ detail_call
    /\ UNCHANGED <<dbVars, request, planRes, debugRes, pfVars, heatVars, extVars>>

\* the "Show SQL (debug)" branch: both loaders called with debug_sql=True
DebugSql ==
    /\ planRes.status = "ok"
    /\ debugRes.status = "none"
    /\ LET j == joined_cte_text(joined_cte_sql(planRes.plan))
           w == build_where_and_params(request.levels, request.cats,
                                       request.emps, request.status_groups)
       IN  debugRes' = [status        |-> "shown",
                        detail_sql    |-> detail_sql_text(j, w.where_sql, request.max_rows),
                        detail_params |-> w.params,
                        cap_sql       |-> cap_sql_text(j, w.where_sql),
                        cap_params    |-> <<FloatParam(request.salary_cap_pct)>> \o w.params]
    /\ UNCHANGED <<dbVars, request, planRes, detailRes, pfVars, heatVars, extVars>>

Next == BuildPlan \/ LoadDetailSample \/ DebugSql

\* the rows the cap query aggregates: FROM joined WHERE {where_sql} AND
\* salary_mid IS NOT NULL AND position_level IS NOT NULL
cap_population(j, w) == Filtered(j, w, HeatNotNull)

\* mutant: the binning query leaves the selections out of its filter
agg_population_unfiltered(j, w) == Filtered(j, NoWhere, HeatNotNull)

\* the rows of the CTE `filtered` of the binning query
agg_population(j, w) == Filtered(j, w, HeatNotNull)

\* the body of load_heatmap_agg(levels, cats, emps, status_groups,
\* salary_cap_pct, nbinsy) run against the database: the cap query, the
\* early return, the binning query
load_heatmap_agg(plan, r) ==
    LET j  == joined_cte_sql(plan)
        w  == build_where_and_params(r.levels, r.cats, r.emps, r.status_groups)
        cap_query ==
            Query("cap", cap_sql_text(joined_cte_text(j), w.where_sql),
                  cap_placeholders(w.where), cap_params(r.salary_cap_pct, w.params))
    IN  IF ~Binds(j) \/ ~Executable(w)
        THEN HeatResult("error", <<>>, {}, NullCap, Rat(0, 1), <<cap_query>>, j,
                        <<>>, <<>>)
        ELSE
          LET filtered == cap_population(j, w)
              cap == quantile_cont([i \in 1..Len(filtered) |-> filtered[i].salary_mid.n],
                                   r.salary_cap_pct)
          IN  IF cap_unusable(cap)
              THEN HeatResult("empty", HeatColumns, {}, cap, Rat(0, 1),
                              <<cap_query>>, j, Joined(j), filtered)
              ELSE
                LET width == bin_size(cap.v, r.nbinsy)
                    agg_query ==
                        Query("agg", agg_sql_text(joined_cte_text(j), w.where_sql),
                              agg_placeholders(w.where),
                              agg_params(w.params, cap.v, width))
                IN  HeatResult("ok", HeatColumns,
                               attach(group_bins(capped(agg_population(j, w), cap.v),
                                                 width),
                                      cap.v, width),
                               cap, width, <<cap_query, agg_query>>, j, Joined(j),
                               filtered)

MaxHeatCalls == 2

\* mutant: an entry is handed back without its last bin
serve_truncated(entry) ==
    [entry EXCEPT !.issued = <<>>,
                  !.rows = IF entry.rows = {} THEN {}
                           ELSE entry.rows \ {CHOOSE o \in entry.rows : TRUE}]

\* a cache hit: the stored table, no query issued
serve(entry) == [entry EXCEPT !.issued = <<>>]

\* a call of the cached load_heatmap_agg.  build_plan() is its first
\* statement, so a plan that raised leaves the call before any query; an
\* entry of the cache is handed back as stored; otherwise the body runs and
\* what it returns is stored (an exception is not)
LoadHeatmapAgg ==
    /\ planRes.status # "none"
    /\ Len(heatLog) < MaxHeatCalls
    /\ IF planRes.status = "raised"
       THEN /\ heatRes' = HeatResult("raised", <<>>, {}, NullCap, Rat(0, 1), <<>>,
                                  joined_cte_sql(NoPlan), <<>>, <<>>)
            /\ UNCHANGED heatCache
       ELSE IF heatCache.status # "none"
       THEN /\ heatRes' = serve(heatCache)
            /\ UNCHANGED heatCache
       ELSE LET out == load_heatmap_agg(planRes.plan, request)
            IN  /\ heatRes' = out
                /\ heatCache' = IF out.status = "error" THEN heatCache ELSE out
    /\ heatLog' = Append(heatLog, heatRes')
    /\ UNCHANGED <<dbVars, request, runVars, pfVars, extVars>>

\* the entry of load_heatmap_agg outlives its ttl of 300 seconds
CacheExpire ==
    /\ heatCache.status # "none"
    /\ heatCache' = NoHeat
    /\ UNCHANGED <<dbVars, request, runVars, pfVars, heatRes, heatLog, extVars>>

\* the "Clear cache" button: st.cache_data.clear() drops every entry, the
\* cached plan included
ClearCache ==
    /\ planRes.status # "none" \/ heatCache.status # "none"
    /\ planRes' = NoPlanRes
    /\ heatCache' = NoHeat
    /\ UNCHANGED <<dbVars, request, detailRes, debugRes, pfVars, heatRes, heatLog, extVars>>

NextHeat == BuildPlan \/ LoadDetailSample \/ LoadHeatmapAgg \/ CacheExpire \/ ClearCache

-----------------------------------------------------------------------------
(* The page script, top to bottom.  Streamlit runs it once per interaction;  *)
(* no statement of it and none of the functions it calls has a try/except  *)
(* around con.execute, so an exception raised there leaves the script at   *)
(* the statement that was running.                                         *)

MaxRuns == 2

\* an exception leaves the script from function fn: the run ends there
Uncaught(fn) == [page EXCEPT !.pc = "idle", !.exception = fn]

\* the user changes a widget: the script runs again with the new selection
Interact ==
    /\ page.pc = "idle"
    /\ page.runs < MaxRuns
    /\ request' \in {[request EXCEPT !.levels = l, !.status_groups = g] :
                        l \in {<<>>, <<"Manager">>}, g \in {<<>>, <<"Open">>}}
    /\ page' = [pc |-> "filters", runs |-> page.runs + 1, shown |-> <<>>,
                exception |-> ""]
    /\ planRes' = NoPlanRes /\ detailRes' = NoDetail /\ heatRes' = NoHeat
    /\ UNCHANGED <<dbVars, debugRes, pfVars, heatCache, heatLog, matchVars, cacheVars>>

\* filters = load_filter_values(), then the sidebar.  `io` is the engine's
\* part in the outcome of con.execute: FALSE when it fails for a reason
\* outside the statement
StmtLoadFilterValues ==
    /\ page.pc = "filters"
    /\ planRes' = build_plan
    /\ \E io \in BOOLEAN :
          page' = IF planRes'.status = "raised" THEN Uncaught("build_plan")
                  ELSE IF ~Binds(joined_cte_sql(planRes'.plan)) \/ ~io
                  THEN Uncaught("load_filter_values")
                  ELSE [page EXCEPT !.pc = "detail", !.shown = <<"sidebar">>]
    /\ UNCHANGED <<dbVars, request, detailRes, debugRes, pfVars, heatVars,
                   matchVars, cacheVars>>

\* detail_df = load_detail_sample(...)
StmtLoadDetailSample ==
    /\ page.pc = "detail"
    /\ \E io \in BOOLEAN :
          IF io THEN detail_call
          ELSE detailRes' = [NoDetail EXCEPT !.status = "error"]
    /\ page' = IF detailRes'.status = "error" THEN Uncaught("load_detail_sample")
               ELSE [page EXCEPT !.pc = "heat"]
    /\ UNCHANGED <<dbVars, request, planRes, debugRes, pfVars, heatVars,
                   matchVars, cacheVars>>

\* heat_df = load_heatmap_agg(...)
StmtLoadHeatmapAgg ==
    /\ page.pc = "heat"
    /\ \E io \in BOOLEAN :
          heatRes' = IF io THEN load_heatmap_agg(planRes.plan, request)
                     ELSE [NoHeat EXCEPT !.status = "error"]
    /\ page' = IF heatRes'.status = "error" THEN Uncaught("load_heatmap_agg")
               ELSE [page EXCEPT !.pc = "render"]
    /\ UNCHANGED <<dbVars, request, runVars, pfVars, heatCache, heatLog,
                   matchVars, cacheVars>>

\* the violin and box plots, the heatmap, the totals table
StmtRender ==
    /\ page.pc = "render"
    /\ page' = [page EXCEPT !.pc = "idle",
                            !.shown = @ \o <<"distributions", "heatmap", "totals">>]
    /\ UNCHANGED <<dbVars, request, runVars, pfVars, heatVars, matchVars, cacheVars>>

NextPage == Interact \/ StmtLoadFilterValues \/ StmtLoadDetailSample
            \/ StmtLoadHeatmapAgg \/ StmtRender

-----------------------------------------------------------------------------
(* compute_match_scores of Team3/streamlit_app/LikHong/sgjobs.py.  A frame *)
(* is a sequence of rows; a missing value (None, NaN, NaT) is NullCell;    *)
(* posting_date is a day number.  A score is a fraction or NaN.            *)

NaNScore  == [nan |-> TRUE, v |-> Rat(0, 1)]
Score(r)  == [nan |-> FALSE, v |-> r]

Abs(x) == IF x < 0 THEN -x ELSE x

RECURSIVE Gcd(_, _)
Gcd(a, b) == IF b = 0 THEN a ELSE Gcd(b, a % b)

\* a fraction in lowest terms (the denominator is positive)
Lowest(r) == LET g == Gcd(Abs(r.num), r.den) IN Rat(r.num \div g, r.den \div g)

RatAdd(a, b)   == Lowest(Rat(a.num * b.den + b.num * a.den, a.den * b.den))
RatTimes(k, a) == Lowest(Rat(k * a.num, a.den))

\* Series.fillna(value)
fillna(cell, value) == IF IsNull(cell) THEN value ELSE cell.n

RECURSIVE MaxOf(_)
MaxOf(S) == LET x == CHOOSE x \in S : TRUE
            IN  IF S = {x} THEN x
                ELSE LET m == MaxOf(S \ {x}) IN IF x > m THEN x ELSE m

\* `s.max() if s.max() > 0 else 1` over the values that are present: max()
\* skips missing values and is NaN when none is present, and NaN > 0 is False
max_or_one(S) == IF S = {} THEN 1 ELSE IF MaxOf(S) > 0 THEN MaxOf(S) ELSE 1

\* 1 - (x / m)
one_minus(x, m) == Score(Lowest(Rat(m - x, m)))

weights == [salary |-> 30, experience |-> 25, category |-> 20, competition |-> 15,
            freshness |-> 10]

\* the weighted sum of the five scores; NaN if one of them is NaN
overall(s, e, c, a, f) ==
    IF s.nan \/ e.nan \/ c.nan \/ a.nan \/ f.nan THEN NaNScore
    ELSE LET sum == RatAdd(RatAdd(RatAdd(RatAdd(RatTimes(weights.salary, s.v),
                                                 RatTimes(weights.experience, e.v)),
                                          RatTimes(weights.category, c.v)),
                                   RatTimes(weights.competition, a.v)),
                            RatTimes(weights.freshness, f.v))
         IN  Score(Lowest(Rat(sum.num, 100 * sum.den)))

\* the score columns of compute_match_scores for a non-empty frame
scored(df, args) ==
    LET N == 1..Len(df)
        salary_diff == [i \in N |-> Abs(fillna(df[i].avg_salary, args.target_salary)
                                        - args.target_salary)]
        max_diff    == max_or_one(Range(salary_diff))
        exp_diff    == [i \in N |-> Abs(fillna(df[i].min_experience, 0)
                                        - args.target_experience)]
        max_exp_diff == max_or_one(Range(exp_diff))
        max_apps    == max_or_one({df[i].applications.n :
                                     i \in {n \in N : ~IsNull(df[n].applications)}})
        dated       == {i \in N : ~IsNull(df[i].posting_date)}
        latest_date == MaxOf({df[i].posting_date.n : i \in dated})
        max_days    == max_or_one({latest_date - df[i].posting_date.n : i \in dated})
    IN  [i \in N |->
          LET s == one_minus(salary_diff[i], max_diff)
              e == one_minus(exp_diff[i], max_exp_diff)
              c == IF args.preferred_categories # <<>>
                   THEN IF ~IsNull(df[i].category_name)
                           /\ InList(df[i].category_name.s, args.preferred_categories)
                        THEN Score(Rat(1, 1)) ELSE Score(Rat(1, 2))
                   ELSE Score(Rat(3, 4))
              a == one_minus(fillna(df[i].applications, 0), max_apps)
              f == IF i \in dated
                   THEN one_minus(latest_date - df[i].posting_date.n, max_days)
                   ELSE NaNScore
          IN  [job |-> df[i], salary_score |-> s, experience_score |-> e,
               category_score |-> c, competition_score |-> a, freshness_score |-> f,
               overall_score |-> overall(s, e, c, a, f)]]

\* sort_values('overall_score', ascending=False): NaN last; the order of
\* equal scores is not fixed (quicksort)
sorted_descending(rows, out) ==
    /\ Len(out) = Len(rows)
    /\ \E p \in [1..Len(rows) -> 1..Len(rows)] :
          /\ \A i, k \in 1..Len(rows) : i # k => p[i] # p[k]
          /\ out = [i \in 1..Len(rows) |-> rows[p[i]]]
    /\ \A i, k \in 1..Len(out) :
          i < k =>
             \/ out[k].overall_score.nan
             \/ /\ ~out[i].overall_score.nan
                /\ RatLeq(out[k].overall_score.v, out[i].overall_score.v)

MaxFrameRows == 2

\* a call of compute_match_scores(df, target_salary, target_experience,
\* preferred_categories)
ComputeMatchScores ==
    /\ ~matchOut.called
    /\ IF matchDf = <<>>
       THEN matchOut' = [called |-> TRUE, rows |-> <<>>]
       ELSE \E out \in [1..Len(matchDf) -> Range(scored(matchDf, matchArgs))] :
               /\ sorted_descending(scored(matchDf, matchArgs), out)
               /\ matchOut' = [called |-> TRUE, rows |-> out]
    /\ UNCHANGED <<dbVars, request, runVars, pfVars, heatVars, pageVars, cacheVars,
                   matchDf, matchArgs>>

NextMatch == ComputeMatchScores

-----------------------------------------------------------------------------
(* The st.cache_data caches in time.  Every cached function has its own    *)
(* entries and its own ttl, counted from the moment an entry is stored; a  *)
(* call that raises stores nothing; "Clear cache" drops every entry.  A    *)
(* value carries where it comes from: `at` is when it was stored (for      *)
(* columns: when they were probed), `epoch` how many clears preceded it.   *)

ttl_get_table_cols     == 1800
ttl_build_plan         == 1800
ttl_load_filter_values == 1800
ttl_load_detail_sample == 300
ttl_load_heatmap_agg   == 300

ttl(fn) ==
    CASE fn = "load_filter_values" -> ttl_load_filter_values
      [] fn = "load_detail_sample" -> ttl_load_detail_sample
      [] fn = "load_heatmap_agg"   -> ttl_load_heatmap_agg

\* an absent entry of a st.cache_data cache; `at` is the time an entry was
\* stored, `epoch` the number of clears before it was stored
NoEntry == [has |-> FALSE, at |-> 0, epoch |-> 0, value |-> <<>>, probed |-> <<>>]

Loaders == {"load_filter_values", "load_detail_sample", "load_heatmap_agg"}

NoStamp == [at |-> 0, epoch |-> 0]

NoPlanOut == [status |-> "none", at |-> 0, cached |-> FALSE, stamp |-> NoStamp,
              value |-> <<>>, probed |-> <<>>]
NoEval    == [fn |-> "", n |-> 0, status |-> "none", at |-> 0, cached |-> FALSE,
              plan_called |-> FALSE, plan_cached |-> FALSE, probes |-> {},
              result |-> NoStamp, plan |-> NoStamp, probed |-> <<>>]

MaxClears == 1

MaxClock == 3000
MaxEvals == 3

\* an entry is served while its age is below the ttl
Valid(entry, limit) == entry.has /\ clock - entry.at < limit

Stamp == [at |-> clock, epoch |-> clears]

\* get_table_cols(table) through its cache; `failing` are the statements on
\* which con.execute raises in this evaluation
cached_table_cols(table, failing) ==
    IF Valid(colsCache[table], ttl_get_table_cols)
    THEN [raised |-> FALSE, cols |-> colsCache[table].value, probe |-> FALSE,
          stamp |-> [at |-> colsCache[table].at, epoch |-> colsCache[table].epoch]]
    ELSE IF get_table_cols(table).raised \/ table \in failing
    THEN [raised |-> TRUE, cols |-> <<>>, probe |-> TRUE, stamp |-> Stamp]
    ELSE [raised |-> FALSE, cols |-> tableCols[table], probe |-> TRUE, stamp |-> Stamp]

\* the body of build_plan over the cached probes: base, categories and
\* enriched in this order, the first to raise ends the call; the raw probe
\* is guarded.  `reached` are the tables whose probe call was made
plan_body(failing) ==
    LET pb == cached_table_cols(T_BASE, failing)
        pc == cached_table_cols(T_CAT, failing)
        pe == cached_table_cols(T_ENR, failing)
        pr == cached_table_cols(T_RAW, failing)
        reached == IF pb.raised THEN <<T_BASE>>
                   ELSE IF pc.raised THEN <<T_BASE, T_CAT>>
                   ELSE IF pe.raised THEN <<T_BASE, T_CAT, T_ENR>>
                   ELSE <<T_BASE, T_CAT, T_ENR, T_RAW>>
        by == (T_BASE :> pb) @@ (T_CAT :> pc) @@ (T_ENR :> pe) @@ (T_RAW :> pr)
    IN  [res    |-> IF pb.raised \/ pc.raised \/ pe.raised
                    THEN Raised("Catalog Error")
                    ELSE resolve_plan(pb.cols, pc.cols, pe.cols,
                                      IF pr.raised THEN <<>> ELSE pr.cols),
         probes |-> {t \in Range(reached) : by[t].probe},
         stored |-> [t \in Tables |->
                       IF InList(t, reached) /\ by[t].probe /\ ~by[t].raised
                       THEN [has |-> TRUE, at |-> clock, epoch |-> clears,
                             value |-> by[t].cols, probed |-> <<>>]
                       ELSE colsCache[t]],
         probed |-> [t \in Tables |-> by[t].stamp]]

\* build_plan() through its cache
cached_build_plan(failing) ==
    IF Valid(planCache, ttl_build_plan)
    THEN [res |-> planCache.value, cached |-> TRUE, probes |-> {},
          cols |-> colsCache, entry |-> planCache,
          stamp |-> [at |-> planCache.at, epoch |-> planCache.epoch],
          probed |-> planCache.probed]
    ELSE LET b == plan_body(failing)
         IN  [res |-> b.res, cached |-> FALSE, probes |-> b.probes,
              cols |-> b.stored,
              entry |-> IF b.res.status = "ok"
                        THEN [has |-> TRUE, at |-> clock, epoch |-> clears,
                              value |-> b.res, probed |-> b.probed]
                        ELSE planCache,
              stamp |-> Stamp,
              probed |-> b.probed]

\* what may go wrong in one evaluation: nothing, or con.execute raises on
\* the probe of one table or on the loader's statement
Failures == {{}} \cup {{x} : x \in Tables \cup {"query"}}

\* the time passes
Advance ==
    /\ \E d \in {1500} :
          /\ clock + d <= MaxClock
          /\ clock' = clock + d
    /\ UNCHANGED <<dbVars, request, runVars, pfVars, heatVars, pageVars, matchVars,
                   clears, colsCache, planCache, loadCache, planOut, evalOut>>

\* a call of one of the three cached loaders.  An entry within its ttl is
\* handed back and the body does not run.  Otherwise the body runs:
\* build_plan(), then the statement; what it returns is stored; when
\* build_plan or con.execute raises, the call raises and stores nothing
Evaluate(fn) ==
    /\ evalOut.n < MaxEvals
    /\ IF Valid(loadCache[fn], ttl(fn))
       THEN /\ evalOut' = [fn |-> fn, n |-> evalOut.n + 1, status |-> "ok", at |-> clock,
                           cached |-> TRUE, plan_called |-> FALSE, plan_cached |-> FALSE,
                           probes |-> {},
                           result |-> [at |-> loadCache[fn].at,
                                       epoch |-> loadCache[fn].epoch],
                           plan |-> loadCache[fn].value.plan,
                           probed |-> loadCache[fn].probed]
            /\ UNCHANGED <<colsCache, planCache, loadCache, planOut>>
       ELSE \E failing \in Failures :
            \E p \in {cached_build_plan(failing)} :
            \E ok \in {/\ p.res.status = "ok"
                       /\ Binds(joined_cte_sql(p.res.plan))
                       /\ "query" \notin failing} :
                  /\ colsCache' = p.cols
                  /\ planCache' = p.entry
                  /\ planOut' = [status |-> p.res.status, at |-> clock,
                                 cached |-> p.cached, stamp |-> p.stamp,
                                 value |-> p.res, probed |-> p.probed]
                  /\ loadCache' =
                        IF ok
                        THEN [loadCache EXCEPT ![fn] =
                                 [has |-> TRUE, at |-> clock, epoch |-> clears,
                                  value |-> [plan |-> p.stamp],
                                  probed |-> p.probed]]
                        ELSE loadCache
                  /\ evalOut' = [fn |-> fn, n |-> evalOut.n + 1,
                                 status |-> IF ok THEN "ok" ELSE "raised", at |-> clock,
                                 cached |-> FALSE, plan_called |-> TRUE,
                                 plan_cached |-> p.cached, probes |-> p.probes,
                                 result |-> Stamp, plan |-> p.stamp,
                                 probed |-> p.probed]
    /\ UNCHANGED <<dbVars, request, runVars, pfVars, heatVars, pageVars, matchVars,
                   clock, clears>>

\* mutant: the clear leaves the entries of get_table_cols in place
cleared_cols_kept == colsCache

\* the entries of get_table_cols after st.cache_data.clear()
cleared_cols == [t \in Tables |-> NoEntry]

\* the "Clear cache" button: st.cache_data.clear()
PressClearCache ==
    /\ clears < MaxClears
    /\ clears' = clears + 1
    /\ colsCache' = cleared_cols
    /\ planCache' = NoEntry
    /\ loadCache' = [f \in Loaders |-> NoEntry]
    /\ UNCHANGED <<dbVars, request, runVars, pfVars, heatVars, pageVars, matchVars,
                   clock, planOut, evalOut>>

NextCache == Advance \/ (\E fn \in Loaders : Evaluate(fn)) \/ PressClearCache

-----------------------------------------------------------------------------
(* pick_first on its own *)

MaxLen   == 3
MaxCalls == 2

PickFirstCall ==
    /\ Len(pfCalls) < MaxCalls
    /\ pfCalls' = Append(pfCalls, pick_first(pfCols, pfCands))
    /\ UNCHANGED <<dbVars, request, runVars, pfCols, pfCands, heatVars, extVars>>

NextPick == PickFirstCall

-----------------------------------------------------------------------------
(* Database families.  A row is written by logical field and laid out over  *)
(* the columns its table holds: a column carries the value of the logical   *)
(* field whose candidate list names it.                                     *)

FieldOf(c) ==
    IF InList(c, key_candidates) THEN "key"
    ELSE IF InList(c, b_title_candidates) THEN "title"
    ELSE IF InList(c, b_company_candidates) THEN "company"
    ELSE IF InList(c, b_emp_candidates) THEN "emp"
    ELSE IF InList(c, b_level_candidates) THEN "level"
    ELSE IF InList(c, b_sal_min_candidates) THEN "sal_min"
    ELSE IF InList(c, b_sal_max_candidates) THEN "sal_max"
    ELSE IF InList(c, e_avg_candidates) THEN "avg"
    ELSE IF InList(c, status_candidates) THEN "status"
    ELSE IF InList(c, c_primary_candidates) THEN "category"
    ELSE "other"

LRow(key, level, emp, category, status, sal_min, sal_max, avg) ==
    [key |-> IntCell(key), title |-> StrCell("Engineer"), company |-> StrCell("Acme"),
     emp |-> emp, level |-> level, sal_min |-> sal_min, sal_max |-> sal_max,
     avg |-> avg, status |-> status, category |-> category, other |-> IntCell(key)]

PhysRows(lrows, cols) ==
    [i \in 1..Len(lrows) |-> [c \in Range(cols) |-> lrows[i][FieldOf(c)]]]

\* every table holds one column no candidate list names
Other == <<"row_id">>

RefRows ==
    <<LRow(1, StrCell("Manager"), StrCell("Full Time"), StrCell("Banking and Finance"),
           StrCell("Re-Open"), IntCell(3000), IntCell(5000), IntCell(4000)),
      LRow(2, StrCell("Executive"), StrCell("Part Time"), StrCell("Engineering"),
           StrCell("Closed"), IntCell(2000), IntCell(4000), IntCell(3000))>>

RefRequest ==
    [levels |-> <<>>, cats |-> <<>>, emps |-> <<>>, status_groups |-> <<"Open">>,
     max_rows |-> 2, salary_cap_pct |-> 95, nbinsy |-> 2]

\* the database with the given tables, columns and (logical) rows
Database(ex, cols, lrows) ==
    /\ tableExists = ex
    /\ tableCols = [t \in Tables |-> IF ex[t] THEN cols[t] ELSE <<>>]
    /\ tableRows = [t \in Tables |-> IF ex[t] THEN PhysRows(lrows[t], cols[t]) ELSE <<>>]

AllExist == [t \in Tables |-> TRUE]

Layout(b, c, e, r) == (T_BASE :> b) @@ (T_CAT :> c) @@ (T_ENR :> e) @@ (T_RAW :> r)

\* the page script has not run
NoPage == [pc |-> "idle", runs |-> 0, shown |-> <<>>, exception |-> ""]

\* compute_match_scores has not been called
NoMatchArgs == [target_salary |-> 0, target_experience |-> 0, preferred_categories |-> <<>>]
NoMatchOut  == [called |-> FALSE, rows |-> <<>>]

InitIdle ==
    /\ page = NoPage
    /\ matchDf = <<>> /\ matchArgs = NoMatchArgs /\ matchOut = NoMatchOut
    /\ clock = 0 /\ clears = 0
    /\ colsCache = [t \in Tables |-> NoEntry]
    /\ planCache = NoEntry
    /\ loadCache = [f \in Loaders |-> NoEntry]
    /\ planOut = NoPlanOut
    /\ evalOut = NoEval

InitCalls == planRes = NoPlanRes /\ detailRes = NoDetail /\ debugRes = NoDebug
             /\ heatRes = NoHeat /\ heatCache = NoHeat /\ heatLog = <<>>

InitRun == InitCalls /\ InitIdle

InitPickIdle == pfCols = <<>> /\ pfCands = <<>> /\ pfCalls = <<>>

\* --- schemas that do or do not resolve the required fields; tables that
\*     are or are not held by the database
SchemaBase == <<"job_id", "metadata_jobPostId", "employmentTypes", "positionLevels",
                "position_level">>
SchemaEnr  == <<"job_id", "employment_type", "position_level">>
SchemaCat  == <<"job_id">>
SchemaRaw  == <<"status_jobStatus">>

InitSchema ==
    /\ \E ex \in [Tables -> BOOLEAN], b \in SubSeqs(SchemaBase), e \in SubSeqs(SchemaEnr),
          c \in SubSeqs(SchemaCat), r \in SubSeqs(SchemaRaw) :
          Database(ex, Layout(Other \o b, Other \o c, Other \o e, Other \o r),
                   Layout(RefRows, RefRows, RefRows, RefRows))
    /\ request = RefRequest
    /\ InitRun /\ InitPickIdle

SpecSchema == InitSchema /\ [][Next]_vars

\* --- schemas that do or do not resolve the optional fields
RequiredBase == <<"job_id", "employmentTypes", "positionLevels">>
SourcesBase  == <<"title", "postedCompany_name", "salary_minimum", "status_jobStatus">>
SourcesCat   == <<"job_id", "category">>
SourcesEnr   == <<"job_id", "avg_salary", "primary_category", "status_jobStatus">>
SourcesRaw   == <<"job_id", "status_jobStatus">>

InitSources ==
    /\ \E b \in SubSeqs(SourcesBase), c \in SubSeqs(SourcesCat),
          e \in SubSeqs(SourcesEnr), r \in SubSeqs(SourcesRaw) :
          Database(AllExist,
                   Layout(Other \o RequiredBase \o b, Other \o c, Other \o e, Other \o r),
                   Layout(RefRows, RefRows, RefRows, RefRows))
    /\ request = RefRequest
    /\ InitRun /\ InitPickIdle

SpecSources == InitSources /\ [][Next]_vars

\* --- pick_first: every cols and candidates list up to MaxLen names
PickNames == {"salary_minimum", "salary_min", "job_id"}

InitPick ==
    /\ Database(AllExist, Layout(Other, Other, Other, Other),
                Layout(<<>>, <<>>, <<>>, <<>>))
    /\ request = RefRequest
    /\ InitRun
    /\ pfCols \in SeqsUpTo(PickNames, MaxLen)
    /\ pfCands \in SeqsUpTo(PickNames, MaxLen)
    /\ pfCalls = <<>>

SpecPick == InitPick /\ [][NextPick]_vars

\* --- salary columns and salary values
SalaryBase == <<"salary_minimum", "salary_maximum">>
SalaryEnr  == <<"job_id", "avg_salary", "salary_min", "salary_max">>

BaseMinCells == {NullCell, IntCell(2000), StrCell("abc")}
BaseMaxCells == {NullCell, IntCell(5000), StrCell("5000")}
EnrAvgCells  == {NullCell, IntCell(4000), StrCell("4k")}
EnrMinCells  == {NullCell, IntCell(1000), StrCell("")}
EnrMaxCells  == {NullCell, IntCell(3000), StrCell("3000")}

SalaryRow(key, sal_min, sal_max, avg) ==
    LRow(key, StrCell("Manager"), StrCell("Full Time"), StrCell("Engineering"),
         StrCell("Open"), sal_min, sal_max, avg)

InitSalary ==
    /\ \E b \in SubSeqs(SalaryBase), e \in SubSeqs(SalaryEnr),
          bmin \in BaseMinCells, bmax \in BaseMaxCells,
          eavg \in EnrAvgCells, emin \in EnrMinCells, emax \in EnrMaxCells,
          ekey \in {1, 2} :
          Database(AllExist,
                   Layout(Other \o RequiredBase \o b, Other, Other \o e, Other),
                   Layout(<<SalaryRow(1, bmin, bmax, NullCell)>>, <<>>,
                          <<SalaryRow(ekey, emin, emax, eavg)>>, <<>>))
    /\ request = [RefRequest EXCEPT !.status_groups = <<>>]
    /\ InitRun /\ InitPickIdle

SpecSalary == InitSalary /\ [][Next]_vars

\* --- raw status strings
StatusSamples ==
    {NullCell} \cup
    {StrCell(x) : x \in {"Re-Open", "REOPEN", "re-opened", "Reopened", "Open", "OPEN",
                         "open", "Closed", "CLOSED", "closed", "Opened", "Open ",
                         "Close", "Pending", "", "re-open", "reopen", "reopened"}}

StatusSelections == {<<>>, <<"Open">>, <<"Closed">>, <<"Open", "Closed">>}

StatusRow(key, status) ==
    LRow(key, StrCell("Manager"), StrCell("Full Time"), StrCell("Engineering"),
         status, IntCell(3000), IntCell(5000), NullCell)

InitStatus ==
    /\ \E b \in SubSeqs(<<"status_jobStatus">>), e \in SubSeqs(<<"jobStatus">>),
          r \in SubSeqs(<<"job_status">>), st \in StatusSamples :
          Database(AllExist,
                   Layout(Other \o RequiredBase \o SalaryBase \o b, Other,
                          Other \o <<"job_id">> \o e, Other \o <<"job_id">> \o r),
                   Layout(<<StatusRow(1, st)>>, <<>>, <<StatusRow(1, st)>>,
                          <<StatusRow(1, st)>>))
    /\ \E g \in StatusSelections : request = [RefRequest EXCEPT !.status_groups = g]
    /\ InitRun /\ InitPickIdle

SpecStatus == InitStatus /\ [][Next]_vars

\* --- populations and selections
MaxBaseRows == 2

Profile(level, emp, category, status, sal_min) ==
    [level |-> level, emp |-> emp, category |-> category, status |-> status,
     sal_min |-> sal_min]

ProfilePool ==
    <<Profile(StrCell("Manager"), StrCell("Full Time"), StrCell("Banking and Finance"),
              StrCell("Re-Open"), IntCell(3000)),
      Profile(StrCell("Executive"), StrCell("Part Time"), StrCell("O'Brien & Sons"),
              StrCell("Closed"), IntCell(2000)),
      Profile(StrCell("Manager"), StrCell("Full Time"), NullCell,
              StrCell("OPEN"), IntCell(5000)),
      Profile(NullCell, StrCell("Full Time"), StrCell("Banking and Finance"),
              StrCell("Open"), IntCell(3000)),
      Profile(StrCell("Executive"), StrCell("Full Time"), StrCell("Banking and Finance"),
              NullCell, IntCell(4000)),
      Profile(StrCell("Manager"), StrCell("Part Time"), StrCell("O'Brien & Sons"),
              StrCell("Pending"), StrCell("abc"))>>

\* the populations: up to MaxBaseRows postings, each of one profile of the pool
Populations ==
    {p \in SeqsUpTo(1..Len(ProfilePool), MaxBaseRows) :
        \A i \in 1..Len(p) - 1 : p[i] <= p[i + 1]}

ProfileRows(p) ==
    [i \in 1..Len(p) |->
        LRow(i, ProfilePool[p[i]].level, ProfilePool[p[i]].emp, ProfilePool[p[i]].category,
             ProfilePool[p[i]].status, ProfilePool[p[i]].sal_min, NullCell, NullCell)]

LevelSelections    == {<<>>, <<"Manager">>, <<"Manager", "Executive">>}
CategorySelections == {<<>>, <<"Banking and Finance">>, <<"O'Brien & Sons">>}
EmpSelections      == {<<>>, <<"Full Time">>}
GroupSelections    == {<<>>, <<"Open">>, <<"Closed">>}

Requests ==
    {[levels |-> l, cats |-> c, emps |-> e, status_groups |-> g,
      max_rows |-> m, salary_cap_pct |-> 95, nbinsy |-> 2] :
        l \in LevelSelections, c \in CategorySelections, e \in EmpSelections,
        g \in GroupSelections, m \in {1, 2}}

\* the category table holds one row for every posting that has a category
InitFilter ==
    /\ \E p \in Populations :
          Database(AllExist,
                   Layout(Other \o RequiredBase \o <<"salary_minimum", "status_jobStatus">>,
                          Other \o <<"job_id", "category">>, Other, Other),
                   Layout(ProfileRows(p),
                          SelectSeq(ProfileRows(p), LAMBDA r : ~IsNull(r.category)),
                          <<>>, <<>>))
    /\ request \in Requests
    /\ InitRun /\ InitPickIdle

SpecFilter == InitFilter /\ [][Next]_vars

\* --- salary populations for the heatmap: postings of two position levels
\*     (or none) with negative, small and large salaries (or none)
MaxHeatRows == 3

HeatProfile(level, sal_min) ==
    Profile(level, StrCell("Full Time"), StrCell("Engineering"), StrCell("Open"), sal_min)

HeatPool ==
    <<HeatProfile(StrCell("Manager"), IntCell(-2)),
      HeatProfile(StrCell("Manager"), IntCell(-1)),
      HeatProfile(StrCell("Manager"), IntCell(1)),
      HeatProfile(StrCell("Manager"), IntCell(30)),
      HeatProfile(StrCell("Manager"), StrCell("abc")),
      HeatProfile(StrCell("Executive"), IntCell(30)),
      HeatProfile(NullCell, IntCell(30))>>

HeatPopulations ==
    {p \in SeqsUpTo(1..Len(HeatPool), MaxHeatRows) :
        \A i \in 1..Len(p) - 1 : p[i] <= p[i + 1]}

HeatRows(p) ==
    [i \in 1..Len(p) |->
        LRow(i, HeatPool[p[i]].level, HeatPool[p[i]].emp, HeatPool[p[i]].category,
             HeatPool[p[i]].status, HeatPool[p[i]].sal_min, NullCell, NullCell)]

\* settings of the two sliders: <<salary_cap_pct in hundredths, nbinsy>>
Guardrails == {<<80, 10>>, <<95, 10>>, <<95, 40>>}

HeatRequests ==
    {[levels |-> l, cats |-> <<>>, emps |-> <<>>, status_groups |-> <<>>,
      max_rows |-> 20000, salary_cap_pct |-> g[1], nbinsy |-> g[2]] :
        l \in {<<>>, <<"Manager">>}, g \in Guardrails}

InitHeat ==
    /\ \E p \in HeatPopulations :
          Database(AllExist,
                   Layout(Other \o RequiredBase \o <<"salary_minimum", "status_jobStatus">>,
                          Other, Other, Other),
                   Layout(HeatRows(p), <<>>, <<>>, <<>>))
    /\ request \in HeatRequests
    /\ InitRun /\ InitPickIdle

SpecHeat == InitHeat /\ [][NextHeat]_vars

\* every pattern of empty and non-empty selections over one posting of each
\* profile, under the heatmap's steps
InitPattern ==
    /\ \E i \in 1..Len(ProfilePool) :
          Database(AllExist,
                   Layout(Other \o RequiredBase \o <<"salary_minimum", "status_jobStatus">>,
                          Other \o <<"job_id", "category">>, Other, Other),
                   Layout(ProfileRows(<<i>>),
                          SelectSeq(ProfileRows(<<i>>), LAMBDA r : ~IsNull(r.category)),
                          <<>>, <<>>))
    /\ request \in Requests
    /\ InitRun /\ InitPickIdle

SpecPattern == InitPattern /\ [][NextHeat]_vars

\* --- a flattened category table: one row per posting and category, so a
\*     posting may have none, one or two rows; the enriched table likewise
FlatCategories == {<<>>, <<"Banking and Finance">>, <<"Banking and Finance", "Engineering">>}

FlatBase ==
    {<<LRow(1, StrCell("Manager"), StrCell("Full Time"), NullCell, StrCell("Open"),
            IntCell(3000), NullCell, NullCell)>>,
     <<LRow(1, StrCell("Manager"), StrCell("Full Time"), NullCell, StrCell("Open"),
            IntCell(3000), NullCell, NullCell),
       LRow(2, StrCell("Manager"), StrCell("Full Time"), NullCell, StrCell("Open"),
            IntCell(5000), NullCell, NullCell)>>,
     <<LRow(1, StrCell("Manager"), StrCell("Full Time"), NullCell, StrCell("Open"),
            IntCell(3000), NullCell, NullCell),
       LRow(2, StrCell("Executive"), StrCell("Full Time"), NullCell, StrCell("Open"),
            IntCell(5000), NullCell, NullCell)>>}

\* the rows of the category table for posting `key`
FlatRows(key, categories) ==
    [i \in 1..Len(categories) |->
        LRow(key, NullCell, NullCell, StrCell(categories[i]), NullCell, NullCell,
             NullCell, NullCell)]

FlatRequests ==
    {[levels |-> l, cats |-> c, emps |-> <<>>, status_groups |-> <<>>,
      max_rows |-> m, salary_cap_pct |-> 95, nbinsy |-> 10] :
        l \in {<<>>, <<"Manager">>}, c \in FlatCategories, m \in {1, 2}}

InitFlat ==
    /\ \E b \in FlatBase, c1 \in FlatCategories, c2 \in FlatCategories, e \in 0..2 :
          Database(AllExist,
                   Layout(Other \o RequiredBase \o <<"salary_minimum">>,
                          Other \o <<"job_id", "category">>,
                          Other \o <<"job_id">>, Other),
                   Layout(b,
                          FlatRows(1, c1) \o (IF Len(b) = 2 THEN FlatRows(2, c2) ELSE <<>>),
                          FlatRows(1, SubSeq(<<"a", "b">>, 1, e)),
                          <<>>))
    /\ request \in FlatRequests
    /\ InitRun /\ InitPickIdle

SpecFlat == InitFlat /\ [][NextHeat]_vars

\* --- the page over one posting of each profile; the selection is made by
\*     the first interaction
InitPage ==
    /\ \E i \in 1..Len(ProfilePool) :
          Database(AllExist,
                   Layout(Other \o RequiredBase \o <<"salary_minimum", "status_jobStatus">>,
                          Other \o <<"job_id", "category">>, Other, Other),
                   Layout(ProfileRows(<<i>>),
                          SelectSeq(ProfileRows(<<i>>), LAMBDA r : ~IsNull(r.category)),
                          <<>>, <<>>))
    /\ request = RefRequest
    /\ InitRun /\ InitPickIdle

SpecPage == InitPage /\ [][NextPage]_vars

\* --- frames for compute_match_scores: up to MaxFrameRows postings of the
\*     pool; a value may be missing where the query of get_job_recommendations
\*     lets it be (LEFT JOIN, nullable columns)
Job(avg_salary, min_experience, category_name, applications, posting_date) ==
    [avg_salary |-> avg_salary, min_experience |-> min_experience,
     category_name |-> category_name, applications |-> applications,
     posting_date |-> posting_date]

JobPool ==
    <<Job(IntCell(3000), IntCell(2), StrCell("IT"), IntCell(10), IntCell(10)),
      Job(IntCell(5000), IntCell(0), StrCell("Finance"), IntCell(0), IntCell(0)),
      Job(IntCell(4000), NullCell, StrCell("IT"), NullCell, IntCell(5)),
      Job(IntCell(4000), IntCell(5), StrCell("Finance"), IntCell(5), NullCell),
      Job(IntCell(4000), IntCell(2), NullCell, IntCell(3), IntCell(10))>>

InitMatch ==
    /\ matchDf \in SeqsUpTo(Range(JobPool), MaxFrameRows)
    /\ matchArgs \in {[target_salary |-> s, target_experience |-> e,
                       preferred_categories |-> c] :
                         s \in {3000, 4000}, e \in {0, 2}, c \in {<<>>, <<"IT">>}}
    /\ matchOut = NoMatchOut
    /\ Database(AllExist, Layout(Other, Other, Other, Other),
                Layout(<<>>, <<>>, <<>>, <<>>))
    /\ request = RefRequest
    /\ InitCalls /\ InitPickIdle
    /\ page = NoPage
    /\ clock = 0 /\ clears = 0
    /\ colsCache = [t \in Tables |-> NoEntry]
    /\ planCache = NoEntry
    /\ loadCache = [f \in Loaders |-> NoEntry]
    /\ planOut = NoPlanOut
    /\ evalOut = NoEval

SpecMatch == InitMatch /\ [][NextMatch]_vars

\* --- the caches over a database whose categories and raw tables are or
\*     are not there; nothing is cached when the process starts
CacheCols ==
    Layout(Other \o RequiredBase \o <<"salary_minimum">>, Other \o <<"job_id", "category">>,
           Other \o <<"job_id">>, Other \o <<"job_id", "status_jobStatus">>)

InitCache ==
    /\ \E c \in BOOLEAN, r \in BOOLEAN :
          Database((T_BASE :> TRUE) @@ (T_CAT :> c) @@ (T_ENR :> TRUE) @@ (T_RAW :> r),
                   CacheCols, Layout(RefRows, RefRows, RefRows, RefRows))
    /\ request = RefRequest
    /\ InitRun /\ InitPickIdle

SpecCache == InitCache /\ [][NextCache]_vars

\* --- status sources and raw status strings under both loaders
SpecStatusFilter == InitStatus /\ [][NextHeat]_vars

\* --- present and absent tables, resolving and unresolving schemas, under
\*     both loaders
SpecSchemaHeat == InitSchema /\ [][NextHeat]_vars

-----------------------------------------------------------------------------
(* What the database holds, read off the tables themselves *)

Resolves(table, candidates) == \E i \in 1..Len(candidates) : HasCol(table, candidates[i])

FirstPresent(table, candidates) ==
    LET I == {i \in 1..Len(candidates) : HasCol(table, candidates[i])}
    IN  IF I = {} THEN None ELSE candidates[CHOOSE i \in I : \A k \in I : i <= k]

-----------------------------------------------------------------------------
(* C2: pick_first returns the candidate of smallest index in `candidates`  *)
(* that is a member of `cols`, whatever the order of `cols`; None exactly  *)
(* when no candidate is in `cols`; and every call with the same arguments  *)
(* returns the same result.                                                *)

PickFirstEarliestCandidate ==
    \A k \in 1..Len(pfCalls) :
        LET present == {i \in 1..Len(pfCands) : pfCands[i] \in Range(pfCols)}
        IN  /\ (pfCalls[k] = None) <=> (present = {})
            /\ present # {} =>
                  pfCalls[k] = pfCands[CHOOSE i \in present : \A m \in present : i <= m]
            /\ pfCalls[k] = pfCalls[1]

PickFirstWitness ==
    /\ pfCols = <<"salary_min", "job_id", "salary_minimum">>
    /\ pfCands = <<"salary_minimum", "salary_min">>
    /\ pfCalls = <<"salary_minimum", "salary_minimum">>

-----------------------------------------------------------------------------
(* C1: for every combination of column lists the probes hand to the       *)
(* resolution (the raw table's being the empty list when that table is     *)
(* absent), build_plan succeeds if and only if the base table resolves a   *)
(* join key and employment type resolves in base or enriched and position  *)
(* level resolves in base or enriched; otherwise it raises and returns no  *)
(* plan.                                                                   *)

RequiredResolve ==
    /\ Resolves(T_BASE, key_candidates)
    /\ Resolves(T_BASE, b_emp_candidates) \/ Resolves(T_ENR, e_emp_candidates)
    /\ Resolves(T_BASE, b_level_candidates) \/ Resolves(T_ENR, e_level_candidates)

ProbesReturn == tableExists[T_CAT] /\ tableExists[T_ENR]

PlanIffRequiredResolve ==
    (planRes.status # "none" /\ ProbesReturn) =>
        /\ (planRes.status = "ok") <=> RequiredResolve
        /\ planRes.status = "ok" =>
              /\ planRes.plan.b_key = FirstPresent(T_BASE, key_candidates)
              /\ Truthy(planRes.plan.b_emp) \/ Truthy(planRes.plan.e_emp)
              /\ Truthy(planRes.plan.b_level) \/ Truthy(planRes.plan.e_level)
        /\ planRes.status # "ok" => (planRes.status = "raised" /\ planRes.plan = NoPlan)

\* the plan is built with employment type and position level found in the
\* enriched table only, and the raw table absent
PlanFromEnrichedWitness ==
    /\ planRes.status = "ok"
    /\ ~Resolves(T_BASE, b_emp_candidates)
    /\ ~Resolves(T_BASE, b_level_candidates)
    /\ ~tableExists[T_RAW]

-----------------------------------------------------------------------------
(* C4: with an optional table (jobs_enriched, jobs_categories or jobs_raw) *)
(* absent from the database, build_plan still succeeds provided the base   *)
(* table resolves the required fields; with the base table absent, plan    *)
(* construction fails.                                                     *)

BaseResolvesRequired ==
    /\ Resolves(T_BASE, key_candidates)
    /\ Resolves(T_BASE, b_emp_candidates)
    /\ Resolves(T_BASE, b_level_candidates)

AbsentOptionalTableTolerated ==
    planRes.status # "none" =>
        /\ BaseResolvesRequired => planRes.status = "ok"
        /\ ~tableExists[T_BASE] => planRes.status = "raised"

-----------------------------------------------------------------------------
(* C3: when an optional field (title, company name, the salary columns,    *)
(* category, status) resolves in no table, build_plan still returns a plan *)
(* and joined_cte_sql emits a NULL expression for the output column        *)
(* (title, company_name, salary_mid, primary_category, status_group): an   *)
(* expression that names no column and is NULL on every row.               *)

IsNullExpression(e) ==
    /\ ColRefs(e) = {}
    /\ \A i \in 1..Len(JoinedRows(detailRes.joined)) :
          IsNull(Eval(e, JoinedRows(detailRes.joined)[i]))

NoTitle    == ~Resolves(T_BASE, b_title_candidates)
NoCompany  == ~Resolves(T_BASE, b_company_candidates)
NoSalary   == /\ ~Resolves(T_BASE, b_sal_min_candidates)
              /\ ~Resolves(T_BASE, b_sal_max_candidates)
              /\ ~Resolves(T_ENR, e_avg_candidates)
              /\ ~Resolves(T_ENR, e_sal_min_candidates)
              /\ ~Resolves(T_ENR, e_sal_max_candidates)
NoCategory == /\ ~Resolves(T_CAT, c_primary_candidates)
              /\ ~Resolves(T_ENR, e_primary_candidates)
NoStatus   == /\ ~Resolves(T_BASE, status_candidates)
              /\ ~Resolves(T_ENR, status_candidates)
              /\ ~Resolves(T_RAW, status_candidates)

UnresolvedOptionalIsNull ==
    /\ (planRes.status # "none" /\ RequiredResolve) => planRes.status = "ok"
    /\ detailRes.status # "none" =>
          /\ NoTitle    => (detailRes.joined.title = NullLit
                            /\ IsNullExpression(detailRes.joined.title))
          /\ NoCompany  => (detailRes.joined.company_name = NullLit
                            /\ IsNullExpression(detailRes.joined.company_name))
          /\ NoSalary   => (detailRes.joined.salary_mid = NullDouble
                            /\ IsNullExpression(detailRes.joined.salary_mid))
          /\ NoCategory => (detailRes.joined.primary_category = NullLit
                            /\ IsNullExpression(detailRes.joined.primary_category))
          /\ NoStatus   => IsNullExpression(detailRes.joined.status_group)

\* no optional field resolves anywhere, and the query is issued and runs
NothingOptionalWitness ==
    /\ detailRes.status = "ok"
    /\ NoTitle /\ NoCompany /\ NoSalary /\ NoCategory /\ NoStatus
    /\ Len(detailRes.cte) > 0

-----------------------------------------------------------------------------
(* C7: the status source is the base table's status column if resolved;    *)
(* else the enriched table's, but only if the enriched table is joined;    *)
(* else the raw table's status column; else NULL.  The raw table is joined *)
(* if and only if neither of the first two sources exists and the raw      *)
(* table resolves both a join key and a status column.                     *)

EnrichedJoined == Resolves(T_ENR, key_candidates)

BaseStatus     == Resolves(T_BASE, status_candidates)
EnrichedStatus == EnrichedJoined /\ Resolves(T_ENR, status_candidates)

StatusSourcePriority ==
    detailRes.status # "none" =>
        LET src == detailRes.joined.status_group.args[1]
        IN  /\ BaseStatus => src = Col("b", FirstPresent(T_BASE, status_candidates))
            /\ (~BaseStatus /\ EnrichedStatus) =>
                  src = Col("e", FirstPresent(T_ENR, status_candidates))
            /\ (~BaseStatus /\ ~EnrichedStatus /\ Resolves(T_RAW, status_candidates)) =>
                  src = Col("r", FirstPresent(T_RAW, status_candidates))
            /\ (~BaseStatus /\ ~EnrichedStatus /\ ~Resolves(T_RAW, status_candidates)) =>
                  src = NullLit
            /\ detailRes.joined.join_raw.on <=>
                  (/\ ~BaseStatus /\ ~EnrichedStatus
                   /\ Resolves(T_RAW, key_candidates)
                   /\ Resolves(T_RAW, status_candidates))
            /\ detailRes.joined.join_raw.on =>
                  detailRes.joined.join_raw =
                     LeftJoin(T_RAW, "r", FirstPresent(T_BASE, key_candidates),
                              FirstPresent(T_RAW, key_candidates))

\* the enriched table holds a status column but is not joined, and the raw
\* table is joined for the status
RawStatusWitness ==
    /\ detailRes.status = "ok"
    /\ detailRes.joined.join_raw.on
    /\ Resolves(T_ENR, status_candidates)
    /\ detailRes.joined.status_group.args[1] = Col("r", "status_jobStatus")
    /\ \E i \in 1..Len(detailRes.cte) : detailRes.cte[i].status_group = StrCell("Open")

-----------------------------------------------------------------------------
(* C8: the primary-category source is the category table's category column *)
(* if it resolves; else the enriched table's category column if the        *)
(* enriched table is joined and the column resolves; else NULL.            *)

PrimaryCategoryPriority ==
    detailRes.status # "none" =>
        LET src == detailRes.joined.primary_category
        IN  /\ Resolves(T_CAT, c_primary_candidates) =>
                  src = Col("c", FirstPresent(T_CAT, c_primary_candidates))
            /\ (/\ ~Resolves(T_CAT, c_primary_candidates)
                /\ EnrichedJoined /\ Resolves(T_ENR, e_primary_candidates)) =>
                  src = Col("e", FirstPresent(T_ENR, e_primary_candidates))
            /\ (/\ ~Resolves(T_CAT, c_primary_candidates)
                /\ ~(EnrichedJoined /\ Resolves(T_ENR, e_primary_candidates))) =>
                  src = NullLit

\* both tables hold a category column: the category table's is taken
CategoryTableFirstWitness ==
    /\ detailRes.status = "ok"
    /\ Resolves(T_CAT, c_primary_candidates)
    /\ EnrichedJoined /\ Resolves(T_ENR, e_primary_candidates)
    /\ detailRes.joined.primary_category = Col("c", "category")
    /\ \E i \in 1..Len(detailRes.cte) :
          detailRes.cte[i].primary_category = StrCell("Banking and Finance")

-----------------------------------------------------------------------------
(* C5: per row, salary_mid is the average-salary value when the            *)
(* average-salary column is resolved in the joined enriched table and the  *)
(* value is a number; else (min + max) / 2 when both bounds are numbers;   *)
(* else min alone; else max alone; else NULL.  With no salary column       *)
(* resolved the expression is NULL::DOUBLE.  A value that is no number     *)
(* counts as NULL and is never an error.  (Each bound is read from the     *)
(* enriched table when that table is joined and resolves it, else from the *)
(* base table.)                                                            *)

\* the number a cell of the salary families stands for, in halves
NumberOf(c) ==
    CASE c.k = "int"        -> DblCell(2 * c.n)
      [] c = StrCell("3000") -> DblCell(6000)
      [] c = StrCell("5000") -> DblCell(10000)
      [] OTHER               -> NullCell

BoundOf(jr, e_candidates, b_candidates) ==
    IF EnrichedJoined /\ Resolves(T_ENR, e_candidates)
    THEN NumberOf(ColVal(jr, "e", FirstPresent(T_ENR, e_candidates)))
    ELSE IF Resolves(T_BASE, b_candidates)
    THEN NumberOf(ColVal(jr, "b", FirstPresent(T_BASE, b_candidates)))
    ELSE NullCell

ExpectedMid(jr) ==
    LET avg == IF EnrichedJoined /\ Resolves(T_ENR, e_avg_candidates)
               THEN NumberOf(ColVal(jr, "e", FirstPresent(T_ENR, e_avg_candidates)))
               ELSE NullCell
        lo  == BoundOf(jr, e_sal_min_candidates, b_sal_min_candidates)
        hi  == BoundOf(jr, e_sal_max_candidates, b_sal_max_candidates)
    IN  IF ~IsNull(avg) THEN avg
        ELSE IF ~IsNull(lo) /\ ~IsNull(hi) THEN DblCell((lo.n + hi.n) \div 2)
        ELSE IF ~IsNull(lo) THEN lo
        ELSE IF ~IsNull(hi) THEN hi
        ELSE NullCell

SalaryMidValue ==
    detailRes.status # "none" =>
        /\ detailRes.status = "ok"
        /\ Len(detailRes.cte) = Len(JoinedRows(detailRes.joined))
        /\ \A i \in 1..Len(detailRes.cte) :
              /\ detailRes.cte[i].salary_mid = ExpectedMid(JoinedRows(detailRes.joined)[i])
              /\ detailRes.cte[i].salary_mid.k \in {"null", "dbl"}
        /\ NoSalary => ExprText(detailRes.joined.salary_mid) = "NULL::DOUBLE"

\* the average-salary column is resolved and joined but its value is no
\* number, one bound is text that is a number: the midpoint of the bounds
MidpointWitness ==
    /\ detailRes.status = "ok"
    /\ Len(detailRes.cte) = 1
    /\ EnrichedJoined
    /\ HasCol(T_ENR, "avg_salary") /\ HasCol(T_ENR, "salary_min")
    /\ HasCol(T_ENR, "salary_max")
    /\ ColVal(JoinedRows(detailRes.joined)[1], "e", "avg_salary") = StrCell("4k")
    /\ ColVal(JoinedRows(detailRes.joined)[1], "e", "salary_min") = IntCell(1000)
    /\ ColVal(JoinedRows(detailRes.joined)[1], "e", "salary_max") = StrCell("3000")
    /\ detailRes.cte[1].salary_mid = DblCell(4000)
    /\ Len(detailRes.rows) = 1

-----------------------------------------------------------------------------
(* C6: status_group is "Open" for every raw status that is, in any case,   *)
(* one of re-open, reopen, re-opened, reopened, open; "Closed" for closed  *)
(* in any case; the raw status itself for every other non-null value; and  *)
(* NULL for NULL.                                                          *)

ExpectedGroup(raw) ==
    IF IsNull(raw) THEN NullCell
    ELSE IF raw.s \in {"Re-Open", "REOPEN", "re-opened", "Reopened", "Open", "OPEN",
                       "open", "re-open", "reopen", "reopened"}
    THEN StrCell("Open")
    ELSE IF raw.s \in {"Closed", "CLOSED", "closed"} THEN StrCell("Closed")
    ELSE raw

RawStatus(jr) ==
    LET src == detailRes.joined.status_group.args[1]
    IN  IF src.op = "col" THEN ColVal(jr, src.alias, src.name) ELSE NullCell

StatusGroupMapping ==
    detailRes.status # "none" =>
        /\ detailRes.status = "ok"
        /\ Len(detailRes.cte) = Len(JoinedRows(detailRes.joined))
        /\ \A i \in 1..Len(detailRes.cte) :
              detailRes.cte[i].status_group =
                 ExpectedGroup(RawStatus(JoinedRows(detailRes.joined)[i]))

ReOpenWitness ==
    /\ detailRes.status = "ok"
    /\ request.status_groups = <<"Open">>
    /\ Len(detailRes.cte) = 1
    /\ RawStatus(JoinedRows(detailRes.joined)[1]) = StrCell("Re-Open")
    /\ detailRes.cte[1].status_group = StrCell("Open")
    /\ Len(detailRes.rows) = 1

-----------------------------------------------------------------------------
(* C9: the SQL text depends only on which selections are empty: for every  *)
(* other request with the same pattern of empty and non-empty selections   *)
(* (and the same row cap) the WHERE clause, the detail query, the cap      *)
(* query and the binning query are the same text; the selected values are  *)
(* exactly the bound parameters, in the order of the placeholders.         *)

Pattern(r) == <<r.levels # <<>>, r.cats # <<>>, r.emps # <<>>, r.status_groups # <<>>>>

SelectedParams(r) ==
    LET chosen == SelectSeq(<<r.levels, r.cats, r.emps, r.status_groups>>,
                            LAMBDA l : l # <<>>)
    IN  [i \in 1..Len(chosen) |-> ListParam(chosen[i])]

FilterValuesOnlyInParams ==
    LET jt == joined_cte_text(joined_cte_sql(planRes.plan))
    IN  /\ \A r2 \in Requests :
              (Pattern(r2) = Pattern(request) /\ r2.max_rows = request.max_rows) =>
                 LET w2 == build_where_and_params(r2.levels, r2.cats, r2.emps,
                                                  r2.status_groups)
                 IN  /\ detailRes.status # "none" =>
                           /\ detailRes.where.where_sql = w2.where_sql
                           /\ detailRes.sql = detail_sql_text(jt, w2.where_sql, r2.max_rows)
                           /\ agg_sql_text(jt, detailRes.where.where_sql)
                                 = agg_sql_text(jt, w2.where_sql)
                     /\ debugRes.status # "none" =>
                           /\ debugRes.detail_sql
                                 = detail_sql_text(jt, w2.where_sql, r2.max_rows)
                           /\ debugRes.cap_sql = cap_sql_text(jt, w2.where_sql)
        /\ detailRes.status # "none" => detailRes.params = SelectedParams(request)
        /\ debugRes.status # "none" =>
              /\ debugRes.detail_params = SelectedParams(request)
              /\ debugRes.cap_params
                    = <<FloatParam(request.salary_cap_pct)>> \o SelectedParams(request)

\* a category holding a quote character is selected; the query runs
QuotedValueWitness ==
    /\ detailRes.status = "ok"
    /\ debugRes.status = "shown"
    /\ request.cats = <<"O'Brien & Sons">>
    /\ detailRes.params = <<ListParam(<<"O'Brien & Sons">>)>>
    /\ detailRes.where.where_sql = "primary_category = ANY(?)"
    /\ Len(detailRes.rows) > 0

-----------------------------------------------------------------------------
(* C10: an empty selection adds no predicate for its dimension: the        *)
(* population is the rows of the joined relation that have non-null        *)
(* salary_mid, position_level and employment_type and match every          *)
(* non-empty selection; with all four selections empty the WHERE clause is *)
(* 1=1 and every such row is returned.                                     *)

Selected(row, selection, column) ==
    selection = <<>> \/ (~IsNull(row[column]) /\ row[column].s \in Range(selection))

Matches(row) ==
    /\ Selected(row, request.levels, "position_level")
    /\ Selected(row, request.cats, "primary_category")
    /\ Selected(row, request.emps, "employment_type")
    /\ Selected(row, request.status_groups, "status_group")

EmptySelectionNoRestriction ==
    detailRes.status # "none" =>
        /\ detailRes.status = "ok"
        /\ detailRes.population =
              SelectSeq(detailRes.cte,
                        LAMBDA row : Matches(row) /\ NotNull(row, DetailNotNull))
        /\ Pattern(request) = <<FALSE, FALSE, FALSE, FALSE>> =>
              /\ detailRes.where.where_sql = "1=1"
              /\ detailRes.population =
                    SelectSeq(detailRes.cte, LAMBDA row : NotNull(row, DetailNotNull))

\* no category is selected: a posting without category is in the population
EmptyCategoryWitness ==
    /\ detailRes.status = "ok"
    /\ request.cats = <<>>
    /\ request.levels = <<"Manager">>
    /\ request.status_groups = <<"Open">>
    /\ \E i \in 1..Len(detailRes.population) :
          IsNull(detailRes.population[i].primary_category)

-----------------------------------------------------------------------------
(* What a heatmap call shows, read off the table it handed back *)

\* the kinds of the queries a call issued, in order
IssuedKinds(h) == [i \in 1..Len(h.issued) |-> h.issued[i].kind]

\* the body of load_heatmap_agg ran and handed back a table
Computed(h) == h.status \in {"empty", "ok"} /\ h.issued # <<>>

\* the midpoint of a row of the population, as a fraction
Mid(row) == Rat(row.salary_mid.n, 2)

Clamped(mid, cap) == IF mid.num * cap.den > cap.num * mid.den THEN cap ELSE mid

\* floor(x / width) * width for width > 0
BinOf(x, width) == Rat(((x.num * width.den) \div (x.den * width.num)) * width.num,
                       width.den)

-----------------------------------------------------------------------------
(* C11: a call of load_heatmap_agg whose cap query returned NULL (the      *)
(* reading of NaN; it does so exactly when the filtered population is      *)
(* empty) or a cap <= 0 hands back the empty table with the columns        *)
(* position_level, bin_start, cnt, cap, bin_size and has issued the cap    *)
(* query only; a call that issued the binning query issued the cap query   *)
(* before it and got a cap > 0 from it.                                    *)

CapGatesBinning ==
    \A k \in 1..Len(heatLog) :
        LET h == heatLog[k]
        IN  /\ (Computed(h) /\ (h.cap.null \/ h.cap.v.num <= 0)) =>
                  /\ h.status = "empty"
                  /\ h.columns = HeatColumns
                  /\ h.rows = {}
                  /\ IssuedKinds(h) = <<"cap">>
            /\ (\E i \in 1..Len(h.issued) : h.issued[i].kind = "agg") =>
                  /\ IssuedKinds(h) = <<"cap", "agg">>
                  /\ ~h.cap.null
                  /\ h.cap.v.num > 0 /\ h.cap.v.den > 0
            /\ Computed(h) => (h.cap.null <=> h.population = <<>>)

\* two postings with negative salaries: the cap is a number below zero
NonPositiveCapWitness ==
    \E k \in 1..Len(heatLog) :
        /\ heatLog[k].status = "empty"
        /\ ~heatLog[k].cap.null
        /\ heatLog[k].cap.v.num < 0
        /\ Len(heatLog[k].population) >= 2
        /\ IssuedKinds(heatLog[k]) = <<"cap">>

-----------------------------------------------------------------------------
(* C12: in every call that bins, the bin width is max(cap / nbinsy, 1.0):  *)
(* it is at least cap / nbinsy and at least 1, it is one of the two, and   *)
(* it is the width bound to the binning query.                             *)

BinWidthAtLeastOne ==
    \A k \in 1..Len(heatLog) :
        LET h == heatLog[k]
            q == Rat(h.cap.v.num, h.cap.v.den * request.nbinsy)
        IN  /\ h.status = "ok" =>
                  /\ RatLeq(Rat(1, 1), h.bin_size)
                  /\ RatLeq(q, h.bin_size)
                  /\ RatEq(h.bin_size, q) \/ RatEq(h.bin_size, Rat(1, 1))
                  /\ h.bin_size.num > 0 /\ h.bin_size.den > 0
            /\ \A i \in 1..Len(h.issued) :
                  h.issued[i].kind = "agg" =>
                     LET ps == h.issued[i].params
                     IN  /\ Len(ps) >= 3
                         /\ ps[Len(ps)] = RatParam(h.bin_size)
                         /\ ps[Len(ps) - 1] = RatParam(h.bin_size)
                         /\ ps[Len(ps)].num >= ps[Len(ps)].den

\* the cap is below the bin count: the width is held at 1.0
WidthFlooredWitness ==
    \E k \in 1..Len(heatLog) :
        /\ heatLog[k].status = "ok"
        /\ heatLog[k].cap.v.num < heatLog[k].cap.v.den * request.nbinsy
        /\ heatLog[k].bin_size = Rat(1, 1)
        /\ IssuedKinds(heatLog[k]) = <<"cap", "agg">>

-----------------------------------------------------------------------------
(* C13: in a call that bins, every row of the filtered population is in    *)
(* the bin of its position level that holds its midpoint clamped to the    *)
(* cap; no bin starts above the cap; and every row whose midpoint is at or *)
(* above the cap is counted in the one bin of its level that starts at     *)
(* floor(cap / width) * width.                                             *)

ClampedNotExcluded ==
    \A k \in 1..Len(heatLog) :
        LET h   == heatLog[k]
            pop == h.population
        IN  h.status = "ok" =>
              /\ \A i \in 1..Len(pop) :
                    \E o \in h.rows :
                       /\ o.position_level = pop[i].position_level
                       /\ o.bin_start = BinOf(Clamped(Mid(pop[i]), h.cap.v), h.bin_size)
              /\ \A o \in h.rows : RatLeq(o.bin_start, h.cap.v)
              /\ \A i \in 1..Len(pop) :
                    RatLeq(h.cap.v, Mid(pop[i])) =>
                       \E o \in h.rows :
                          /\ o.position_level = pop[i].position_level
                          /\ o.bin_start = BinOf(h.cap.v, h.bin_size)
                          /\ o.cnt >= Cardinality(
                                {n \in 1..Len(pop) :
                                    /\ pop[n].position_level = pop[i].position_level
                                    /\ RatLeq(h.cap.v, Mid(pop[n]))})

\* a posting above the cap beside one below it, of the same position level
ClampedRowWitness ==
    \E k \in 1..Len(heatLog) :
        /\ heatLog[k].status = "ok"
        /\ \E i, n \in 1..Len(heatLog[k].population) :
              /\ RatLess(heatLog[k].cap.v, Mid(heatLog[k].population[i]))
              /\ RatLess(Mid(heatLog[k].population[n]), heatLog[k].cap.v)
              /\ heatLog[k].population[i].position_level
                    = heatLog[k].population[n].position_level
        /\ RatLess(Rat(1, 1), heatLog[k].bin_size)

-----------------------------------------------------------------------------
(* C14: in a call that bins, for every position level of the output the    *)
(* counts of its bins add up to the number of rows of the joined relation  *)
(* that match the filters, have a non-null midpoint and have that position *)
(* level; and every position level of such a row is in the output.         *)

RECURSIVE SumCnt(_)
SumCnt(S) ==
    IF S = {} THEN 0
    ELSE LET o == CHOOSE o \in S : TRUE IN o.cnt + SumCnt(S \ {o})

HeatMatching(h, level) ==
    {i \in 1..Len(h.cte) :
        /\ Matches(h.cte[i])
        /\ ~IsNull(h.cte[i].salary_mid)
        /\ h.cte[i].position_level = level}

BinsKeepEveryRow ==
    \A k \in 1..Len(heatLog) :
        LET h == heatLog[k]
        IN  h.status = "ok" =>
              /\ \A level \in {o.position_level : o \in h.rows} :
                    SumCnt({o \in h.rows : o.position_level = level})
                       = Cardinality(HeatMatching(h, level))
              /\ \A i \in 1..Len(h.cte) :
                    (~IsNull(h.cte[i].position_level)
                       /\ HeatMatching(h, h.cte[i].position_level) # {}) =>
                       \E o \in h.rows : o.position_level = h.cte[i].position_level

\* two postings share a bin and a third of the same level is in another
SharedBinWitness ==
    \E k \in 1..Len(heatLog) :
        /\ heatLog[k].status = "ok"
        /\ \E o1, o2 \in heatLog[k].rows :
              /\ o1.position_level = o2.position_level
              /\ o1.bin_start # o2.bin_start
              /\ o1.cnt >= 2

-----------------------------------------------------------------------------
(* C15: in a call that bins, for every position level of the output the    *)
(* number of distinct bin_start values of that level is at most            *)
(* ceil(cap / width) + 1.                                                  *)

\* ceil(x / width) for width > 0
CeilOf(x, width) == -(((-x.num) * width.den) \div (x.den * width.num))

BinCountBound ==
    \A k \in 1..Len(heatLog) :
        LET h == heatLog[k]
        IN  h.status = "ok" =>
              \A level \in {o.position_level : o \in h.rows} :
                 Cardinality({o.bin_start : o \in {x \in h.rows : x.position_level = level}})
                    <= CeilOf(h.cap.v, h.bin_size) + 1

-----------------------------------------------------------------------------
(* C16: every table a call of load_heatmap_agg hands back, empty or not,   *)
(* has the columns position_level, bin_start, cnt, cap, bin_size; in a     *)
(* non-empty one every row carries the cap the cap query returned and the  *)
(* width bound to the binning query of that call.                          *)

CapAndWidthOnEveryRow ==
    \A k \in 1..Len(heatLog) :
        LET h == heatLog[k]
        IN  /\ h.status \in {"empty", "ok"} => h.columns = HeatColumns
            /\ h.status = "empty" => h.rows = {}
            /\ h.status = "ok" =>
                  /\ h.rows # {}
                  /\ ~h.cap.null
                  /\ \A o \in h.rows : o.cap = h.cap.v /\ o.bin_size = h.bin_size
            /\ (h.status = "ok" /\ h.issued # <<>>) =>
                  LET ps == h.issued[Len(h.issued)].params
                  IN  /\ h.issued[Len(h.issued)].kind = "agg"
                      /\ Len(ps) >= 3
                      /\ \A o \in h.rows :
                            /\ RatParam(o.cap) = ps[Len(ps) - 2]
                            /\ RatParam(o.bin_size) = ps[Len(ps) - 1]
                            /\ RatParam(o.bin_size) = ps[Len(ps)]

\* bins of two position levels, none starting at the cap, all carrying it
CapColumnWitness ==
    \E k \in 1..Len(heatLog) :
        /\ heatLog[k].status = "ok"
        /\ \E o1, o2 \in heatLog[k].rows :
              /\ o1.position_level # o2.position_level
              /\ o1.bin_start # o1.cap /\ o2.bin_start # o2.cap
              /\ o1.cap = o2.cap /\ o1.bin_size = o2.bin_size
              /\ o1.cap = heatLog[k].cap.v

-----------------------------------------------------------------------------
(* C17: with the database and the request unchanged, every call of         *)
(* load_heatmap_agg hands back the same table (status, columns and set of  *)
(* rows), whether it is served from the cache or computed again after the  *)
(* entry expired or the cache was cleared.                                 *)

-----------------------------------------------------------------------------
(* C18: the status selection is tested against the status group, not the   *)
(* raw status: with a status source in the plan, a row is in the detail    *)
(* population and in the heatmap population exactly when no status group   *)
(* is selected or the group of its raw status is among the selected ones   *)
(* (and its other columns pass); so a row whose raw status is a spelling   *)
(* of open or re-open is there under ["Open"] and never under ["Closed"].  *)

\* the raw status of a joined row, read off the tables by the priority of
\* the sources
StatusFromTables(jr) ==
    IF Resolves(T_BASE, status_candidates)
    THEN ColVal(jr, "b", FirstPresent(T_BASE, status_candidates))
    ELSE IF Resolves(T_ENR, key_candidates) /\ Resolves(T_ENR, status_candidates)
    THEN ColVal(jr, "e", FirstPresent(T_ENR, status_candidates))
    ELSE IF Resolves(T_RAW, key_candidates) /\ Resolves(T_RAW, status_candidates)
    THEN ColVal(jr, "r", FirstPresent(T_RAW, status_candidates))
    ELSE NullCell

HasStatusSource ==
    \/ Resolves(T_BASE, status_candidates)
    \/ Resolves(T_ENR, key_candidates) /\ Resolves(T_ENR, status_candidates)
    \/ Resolves(T_RAW, key_candidates) /\ Resolves(T_RAW, status_candidates)

GroupSelected(jr) ==
    \/ request.status_groups = <<>>
    \/ /\ ~IsNull(ExpectedGroup(StatusFromTables(jr)))
       /\ ExpectedGroup(StatusFromTables(jr)).s \in Range(request.status_groups)

\* the rows of cte, in order, whose joined row passes the status selection
\* and whose other columns pass
KeptByGroup(j, cte, columns) ==
    LET jrs  == JoinedRows(j)
        keep == SelectSeq([i \in 1..Len(cte) |-> i],
                          LAMBDA i : /\ GroupSelected(jrs[i])
                                     /\ NotNull(cte[i], columns)
                                     /\ Selected(cte[i], request.levels, "position_level")
                                     /\ Selected(cte[i], request.cats, "primary_category")
                                     /\ Selected(cte[i], request.emps, "employment_type"))
    IN  [x \in 1..Len(keep) |-> cte[keep[x]]]

StatusFilterOnGroup ==
    HasStatusSource =>
        /\ detailRes.status = "ok" =>
              detailRes.population
                 = KeptByGroup(detailRes.joined, detailRes.cte, DetailNotNull)
        /\ \A k \in 1..Len(heatLog) :
              heatLog[k].status \in {"empty", "ok"} =>
                 heatLog[k].population
                    = KeptByGroup(heatLog[k].joined, heatLog[k].cte, HeatNotNull)

\* a posting whose raw status is REOPEN, filtered for ["Closed"]: in neither
\* population
ReOpenHiddenWitness ==
    /\ request.status_groups = <<"Closed">>
    /\ HasStatusSource
    /\ detailRes.status = "ok"
    /\ Len(detailRes.cte) = 1
    /\ StatusFromTables(JoinedRows(detailRes.joined)[1]) = StrCell("REOPEN")
    /\ detailRes.population = <<>>
    /\ \E k \in 1..Len(heatLog) :
          /\ heatLog[k].status = "empty"
          /\ Len(heatLog[k].cte) = 1
          /\ heatLog[k].population = <<>>

-----------------------------------------------------------------------------
(* C19: a dimension the plan has no source for (status, primary category:  *)
(* its expression is NULL) does not restrict: the detail population and    *)
(* the heatmap population are the rows that pass the selections of the     *)
(* dimensions that have a source, whatever is selected for the others.     *)

StatusExpressionNull(j) == j.status_group.args[1].op = "NULL"

CategoryExpressionNull(j) == j.primary_category.op = "NULL"

KeptBySourced(j, cte, columns) ==
    SelectSeq(cte,
              LAMBDA row :
                 /\ NotNull(row, columns)
                 /\ Selected(row, request.levels, "position_level")
                 /\ Selected(row, request.emps, "employment_type")
                 /\ CategoryExpressionNull(j)
                       \/ Selected(row, request.cats, "primary_category")
                 /\ StatusExpressionNull(j)
                       \/ Selected(row, request.status_groups, "status_group"))

UnsourcedDimensionUnfiltered ==
    /\ detailRes.status = "ok" =>
          detailRes.population
             = KeptBySourced(detailRes.joined, detailRes.cte, DetailNotNull)
    /\ \A k \in 1..Len(heatLog) :
          heatLog[k].status \in {"empty", "ok"} =>
             heatLog[k].population
                = KeptBySourced(heatLog[k].joined, heatLog[k].cte, HeatNotNull)

-----------------------------------------------------------------------------
(* C20: whenever build_plan raises, its error names the required field     *)
(* that did not resolve (join key, employment type or position level) and  *)
(* the table(s) searched, that field is indeed unresolved there, and no    *)
(* query is issued afterwards.                                             *)

PlanErrorNamesField ==
    planRes.status = "raised" =>
        /\ \/ /\ planRes.error = "Cannot find join key in jobs_base."
              /\ ~Resolves(T_BASE, key_candidates)
           \/ /\ planRes.error = "Cannot find employment type column in base or enriched."
              /\ ~Resolves(T_BASE, b_emp_candidates)
              /\ ~Resolves(T_ENR, e_emp_candidates)
           \/ /\ planRes.error = "Cannot find position level column in base or enriched."
              /\ ~Resolves(T_BASE, b_level_candidates)
              /\ ~Resolves(T_ENR, e_level_candidates)
        /\ detailRes.status = "none"
        /\ \A k \in 1..Len(heatLog) : heatLog[k].issued = <<>>

-----------------------------------------------------------------------------
(* C22: load_detail_sample returns at most max_rows rows; every returned   *)
(* row matches every non-empty selection and has non-null salary_mid,      *)
(* position_level and employment_type; when at most max_rows rows of the   *)
(* joined relation qualify, all of them are returned.                      *)

Qualifies(row) == Matches(row) /\ NotNull(row, DetailNotNull)

\* how many times a row occurs in a table
Occurrences(row, table) == Cardinality({i \in 1..Len(table) : table[i] = row})

SampleWithinPopulation ==
    detailRes.status = "ok" =>
        LET qualifying == SelectSeq(detailRes.cte, Qualifies)
            rows       == detailRes.rows
        IN  /\ Len(rows) <= request.max_rows
            /\ \A i \in 1..Len(rows) :
                  /\ Qualifies(rows[i])
                  /\ Occurrences(rows[i], rows) <= Occurrences(rows[i], qualifying)
            /\ Len(qualifying) <= request.max_rows => Len(rows) = Len(qualifying)

\* two postings qualify and one row is asked for: one of them comes back
SampleCutWitness ==
    /\ detailRes.status = "ok"
    /\ request.max_rows = 1
    /\ request.levels = <<"Manager">>
    /\ Len(SelectSeq(detailRes.cte, Qualifies)) = 2
    /\ Len(detailRes.rows) = 1

-----------------------------------------------------------------------------
(* C26: for every plan build_plan returns, the text of joined_cte_sql is   *)
(* well formed: every alias an expression refers to (b, e, c, r) is in the *)
(* FROM clause, joined on resolved keys; no expression names an unresolved *)
(* column (b.None, e.None); position_level and employment_type each name a *)
(* resolved column of a joined table.                                      *)

\* alias.name is a column the plan resolved in a table of the FROM clause
ResolvedRef(j, ref) ==
    /\ ref[1] \in JoinedAliases(j)
    /\ ref[2] # None
    /\ HasCol(AliasTable(ref[1]), ref[2])

JoinedSqlWellFormed ==
    planRes.status = "ok" =>
        LET j == joined_cte_sql(planRes.plan)
        IN  /\ \A i \in 1..3 :
                  Joins(j)[i].on => Joins(j)[i].left # None /\ Joins(j)[i].right # None
            /\ \A i \in 1..Len(OutputColumns) :
                  \A ref \in ColRefs(j[OutputColumns[i]]) : ResolvedRef(j, ref)
            /\ \A c \in {"position_level", "employment_type"} :
                  j[c].op = "col" /\ ResolvedRef(j, <<j[c].alias, j[c].name>>)

-----------------------------------------------------------------------------
(* C24: every table name and column name interpolated into the SQL text is *)
(* one of the four table constants or an element of one of build_plan's    *)
(* candidate-name lists; no identifier comes from the user's selections.   *)

CandidateNames ==
    UNION {Range(l) : l \in {key_candidates, b_title_candidates, b_company_candidates,
                             b_emp_candidates, b_level_candidates, b_sal_min_candidates,
                             b_sal_max_candidates, status_candidates,
                             c_primary_candidates, e_avg_candidates, e_emp_candidates,
                             e_level_candidates, e_primary_candidates,
                             e_sal_min_candidates, e_sal_max_candidates}}

\* the table and column names in the text of joined_cte_sql
TableNames(j)  == {T_BASE} \cup {Joins(j)[i].table : i \in {n \in 1..3 : Joins(j)[n].on}}
ColumnNames(j) ==
    {Joins(j)[i].left : i \in {n \in 1..3 : Joins(j)[n].on}}
    \cup {Joins(j)[i].right : i \in {n \in 1..3 : Joins(j)[n].on}}
    \cup {ref[2] : ref \in UNION {ColRefs(j[OutputColumns[i]]) : i \in 1..Len(OutputColumns)}}

IdentifiersFromFixedLists ==
    planRes.status = "ok" =>
        LET j == joined_cte_sql(planRes.plan)
        IN  /\ TableNames(j) \subseteq Tables
            /\ ColumnNames(j) \subseteq CandidateNames

-----------------------------------------------------------------------------
(* C27: in every issued statement (detail, cap, binning) there are as many *)
(* `?` as parameters, and the i-th parameter is the one meant for the i-th *)
(* `?` in textual order: the percentile before the filter sets in the cap  *)
(* query; the filter sets before cap, width, width in the binning query;   *)
(* for every pattern of empty and non-empty selections.                    *)

SelectionFor(column) ==
    CASE column = "position_level"   -> request.levels
      [] column = "primary_category" -> request.cats
      [] column = "employment_type"  -> request.emps
      [] column = "status_group"     -> request.status_groups

\* the columns with a non-empty selection, in the order of the WHERE clause
FilteredColumns ==
    SelectSeq(<<"position_level", "primary_category", "employment_type", "status_group">>,
              LAMBDA c : SelectionFor(c) # <<>>)

ParamFits(slot, p, h) ==
    CASE slot = "percentile" ->
            p.kind = "float" /\ RatEq(Rat(p.num, p.den), Rat(request.salary_cap_pct, 100))
      [] slot = "cap"        -> p.kind = "float" /\ RatEq(Rat(p.num, p.den), h.cap.v)
      [] slot = "bin_size"   -> p.kind = "float" /\ RatEq(Rat(p.num, p.den), h.bin_size)
      [] OTHER               -> p.kind = "list" /\ p.list = SelectionFor(slot)

Aligned(slots, params, h) ==
    /\ Len(slots) = Len(params)
    /\ \A i \in 1..Len(slots) : ParamFits(slots[i], params[i], h)

PlaceholdersMatchParams ==
    /\ detailRes.status # "none" =>
          /\ detail_placeholders(detailRes.where.where) = FilteredColumns
          /\ Aligned(FilteredColumns, detailRes.params, heatRes)
    /\ \A i \in 1..Len(heatRes.issued) :
          LET q == heatRes.issued[i]
          IN  /\ q.kind = "cap" => q.placeholders = <<"percentile">> \o FilteredColumns
              /\ q.kind = "agg" =>
                    q.placeholders = FilteredColumns \o <<"cap", "bin_size", "bin_size">>
              /\ Aligned(q.placeholders, q.params, heatRes)

\* level and status group selected, category and employment type not: the
\* binning query carries five parameters
MixedPatternWitness ==
    /\ heatRes.status = "ok"
    /\ Len(heatRes.issued) = 2
    /\ Pattern(request) = <<TRUE, FALSE, FALSE, TRUE>>
    /\ Len(heatRes.issued[2].params) = 5
    /\ detailRes.status = "ok"

-----------------------------------------------------------------------------
(* C28: within one call of load_heatmap_agg the cap query and the binning  *)
(* query select the same rows: whenever the cap is positive the binning    *)
(* result is non-empty, and the rows counted in the bins are exactly the   *)
(* rows whose percentile the cap is.                                       *)

\* the k-th smallest of the midpoints (in halves) of a population
KthSmallest(pop, k) ==
    CHOOSE x \in {pop[i].salary_mid.n : i \in 1..Len(pop)} :
        /\ Cardinality({i \in 1..Len(pop) : pop[i].salary_mid.n < x}) < k
        /\ Cardinality({i \in 1..Len(pop) : pop[i].salary_mid.n <= x}) >= k

\* continuous percentile pct / 100 of the midpoints of pop
PercentileOf(pop, pct) ==
    LET lo   == ((Len(pop) - 1) * pct) \div 100
        part == ((Len(pop) - 1) * pct) % 100
        a    == KthSmallest(pop, lo + 1)
        b    == IF part = 0 THEN a ELSE KthSmallest(pop, lo + 2)
    IN  Rat(100 * a + part * (b - a), 200)

\* the rows of the cap query's population that a bin of the result counts
CountedIn(h, o) ==
    {i \in 1..Len(h.population) :
        /\ h.population[i].position_level = o.position_level
        /\ RatEq(BinOf(Clamped(Mid(h.population[i]), h.cap.v), h.bin_size), o.bin_start)}

CapAndBinsSamePopulation ==
    \A k \in 1..Len(heatLog) :
        LET h == heatLog[k]
        IN  (Computed(h) /\ ~h.cap.null /\ h.cap.v.num > 0) =>
              /\ h.status = "ok"
              /\ h.rows # {}
              /\ h.population = SelectSeq(h.cte, LAMBDA row : Matches(row)
                                                   /\ NotNull(row, HeatNotNull))
              /\ RatEq(h.cap.v, PercentileOf(h.population, request.salary_cap_pct))
              /\ \A o \in h.rows : o.cnt = Cardinality(CountedIn(h, o))
              /\ SumCnt(h.rows) = Len(h.population)

\* Manager is selected and an Executive posting exists: both queries leave
\* it out
SelectedPopulationWitness ==
    \E k \in 1..Len(heatLog) :
        /\ heatLog[k].status = "ok"
        /\ heatLog[k].issued # <<>>
        /\ request.levels = <<"Manager">>
        /\ Len(heatLog[k].population) >= 2
        /\ \E i \in 1..Len(heatLog[k].cte) :
              heatLog[k].cte[i].position_level = StrCell("Executive")

-----------------------------------------------------------------------------
(* C29: each posting of the base table adds at most one to the heatmap     *)
(* counts: for every position level the sum of cnt over its bins is at     *)
(* most the number of distinct base postings of that level that match the  *)
(* filters, whatever the joined tables hold.                               *)

\* the base postings of a level behind the rows the heatmap counts
MatchingPostings(h, level) == {h.cte[i].job_post_id : i \in HeatMatching(h, level)}

PostingCountedOnce ==
    \A k \in 1..Len(heatLog) :
        LET h == heatLog[k]
        IN  h.status = "ok" =>
              \A level \in {o.position_level : o \in h.rows} :
                  SumCnt({o \in h.rows : o.position_level = level})
                     <= Cardinality(MatchingPostings(h, level))

-----------------------------------------------------------------------------
(* C21: when con.execute raises during load_detail_sample or               *)
(* load_heatmap_agg, the failure is caught where the query is issued and   *)
(* shown as an error on the page; no exception leaves the loader, and the  *)
(* run goes on.                                                            *)

LoaderFailed == detailRes.status = "error" \/ heatRes.status = "error"

QueryFailureCaught ==
    LoaderFailed =>
        /\ page.exception = ""
        /\ InList("error", page.shown)

-----------------------------------------------------------------------------
(* C25: for every non-empty frame compute_match_scores yields salary,      *)
(* experience, category, competition and freshness scores in [0, 1] and an *)
(* overall score in [0, 1], the weighted sum with weights 0.30, 0.25,      *)
(* 0.20, 0.15, 0.10 that add up to 1; the rows come back ordered by        *)
(* overall score, non-increasing; an empty frame comes back unchanged.     *)

InUnit(s) == ~s.nan /\ 0 <= s.v.num /\ s.v.num <= s.v.den

ScoresInUnitInterval ==
    matchOut.called =>
        IF matchDf = <<>> THEN matchOut.rows = matchDf
        ELSE /\ weights.salary + weights.experience + weights.category
                  + weights.competition + weights.freshness = 100
             /\ Len(matchOut.rows) = Len(matchDf)
             /\ \A i \in 1..Len(matchOut.rows) :
                   LET o == matchOut.rows[i]
                   IN  /\ InUnit(o.salary_score) /\ InUnit(o.experience_score)
                       /\ InUnit(o.category_score) /\ InUnit(o.competition_score)
                       /\ InUnit(o.freshness_score) /\ InUnit(o.overall_score)
             /\ \A i \in 1..Len(matchOut.rows) - 1 :
                   RatLeq(matchOut.rows[i + 1].overall_score.v,
                          matchOut.rows[i].overall_score.v)

\* the same statement over frames in which every posting has a posting date
ScoresInUnitWhenDated ==
    (\A i \in 1..Len(matchDf) : ~IsNull(matchDf[i].posting_date)) => ScoresInUnitInterval

-----------------------------------------------------------------------------
(* C30: as long as "Clear cache" is not pressed, a plan that build_plan    *)
(* returns rests on column sets probed at most one schema ttl (1800 s)     *)
(* before the return, although build_plan and get_table_cols have caches   *)
(* of their own.                                                           *)

PlanReflectsRecentProbes ==
    (planOut.status = "ok" /\ clears = 0) =>
        \A t \in Tables : planOut.at - planOut.probed[t].at <= ttl_get_table_cols

-----------------------------------------------------------------------------
(* C23: probes, plans, filter options and query results are served from    *)
(* their cache while their age is below the ttl (1800 s for get_table_cols, *)
(* build_plan and load_filter_values, 300 s for load_detail_sample and     *)
(* load_heatmap_agg) and "Clear cache" has not been pressed since they     *)
(* were stored; an evaluation that finds no such entry runs the body, and  *)
(* what an evaluation returns was never stored before the last clear: the  *)
(* first evaluation after a clear probes every table, builds the plan and  *)
(* executes its statement.                                                 *)

\* the entry of the loader is served exactly while it is within its ttl
ServedWithinTtl(fn, out) ==
    /\ out.cached <=> /\ loadCache[fn].has
                      /\ out.at - loadCache[fn].at < ttl(fn)
    /\ (out.status = "ok") => out.at - out.result.at < ttl(fn)
    /\ ~out.cached =>
          /\ out.plan_called
          /\ out.plan_cached <=> /\ planCache.has
                                 /\ out.at - planCache.at < ttl_build_plan
          /\ out.plan_cached => out.probes = {}
          /\ \A t \in out.probes :
                ~(colsCache[t].has /\ out.at - colsCache[t].at < ttl_get_table_cols)
          /\ (out.status = "ok" /\ ~out.plan_cached) =>
                /\ out.at - out.plan.at = 0
                /\ \A t \in Tables :
                      /\ out.at - out.probed[t].at < ttl_get_table_cols
                      /\ t \in out.probes <=>
                            ~(/\ colsCache[t].has
                              /\ out.at - colsCache[t].at < ttl_get_table_cols)
                      /\ t \in out.probes => out.probed[t].at = out.at

\* nothing that was stored before the last clear is returned
NothingFromBeforeClear(out) ==
    (out.status = "ok") =>
        /\ out.result.epoch = clears
        /\ out.plan.epoch = clears
        /\ \A t \in Tables : out.probed[t].epoch = clears

\* the evaluation right after a clear starts from nothing
FirstAfterClear(out) ==
    (/\ clears > 0
     /\ colsCache = [t \in Tables |-> NoEntry]
     /\ planCache = NoEntry
     /\ loadCache = [f \in Loaders |-> NoEntry]) =>
        /\ ~out.cached /\ ~out.plan_cached
        /\ (out.status = "ok") => out.probes = Tables

CacheServesUntilTtlOrClear ==
    [][evalOut'.n # evalOut.n =>
          /\ ServedWithinTtl(evalOut'.fn, evalOut')
          /\ NothingFromBeforeClear(evalOut')
          /\ FirstAfterClear(evalOut')]_vars

\* an evaluation after a clear that probed every table again, at a time when
\* the entries stored before the clear would still have been within their ttl
RebuiltAfterClearWitness ==
    /\ evalOut.status = "ok" /\ clears = 1 /\ evalOut.n >= 2
    /\ ~evalOut.cached /\ ~evalOut.plan_cached /\ evalOut.probes = Tables
    /\ evalOut.at = 0

====
